---- MODULE Spec2Model ----
(***************************************************************************)
(* A model of mm-mcp's caching and resilience layer:                       *)
(*   - CacheManager (src/src/mm_mcp/cache.py): six TTL maps with lazy      *)
(*     expiry and secondary name indices;                                  *)
(*   - MattermostClient._with_retry (src/src/mm_mcp/mattermost.py): the    *)
(*     one-shot reauthenticate-and-retry wrapper.                          *)
(*   - MattermostClient._batch_get_users / _batch_get_channels: the batch  *)
(*     resolvers, one fetch of the second loop per step;                   *)
(*   - MattermostClient.get_team_by_name over get_teams.                   *)
(* Time is a discrete clock `now`; a cache operation reads the clock once  *)
(* (the few time.time() calls of one operation are taken at one instant).  *)
(***************************************************************************)
EXTENDS Integers, Sequences, FiniteSets, TLC

----------------------------------------------------------------------------
(* Bounds of the model *)

\* the clock runs over 0..MaxTime
MaxTime == 2
\* CacheManager(ttl) is constructed with a ttl in 0..MaxTTL
MaxTTL == 2
\* at most MaxCalls operations are issued on the cache in one behaviour
MaxCalls == 3
\* a batch is called with a list of at most MaxIds ids
MaxIds == 2
\* at most MaxBatches client operations are called in one behaviour
MaxBatches == 2

----------------------------------------------------------------------------
(* Keys and records (free-form dicts are records; a missing key is a       *)
(* missing field)                                                          *)

UserIds == {"u1", "u2"}
TeamIds == {"t1"}
ChannelIds == {"c1"}
PostIds == {"p1"}

UserRecords ==
    { [id |-> "u1", username |-> "alice"],
      [id |-> "u1", username |-> "bob"] }

TeamRecords ==
    { [id |-> "t1", name |-> "eng"],
      [id |-> "t1", name |-> "ops"],
      [id |-> "t1"] }

ChannelRecords ==
    { [id |-> "c1", team_id |-> "t1", name |-> "general"],
      [id |-> "c1", name |-> "general"],
      [id |-> "c1", team_id |-> "t1"] }

PostRecords ==
    { [id |-> "p1", message |-> "hello"] }

\* Python's None, and a returned value v, as an option: <<>> or <<v>>
None == << >>
Some(v) == << v >>

----------------------------------------------------------------------------
VARIABLES
    now,        \* time.time()
    cache,      \* the CacheManager: ttl and its six dicts of CacheEntry
    last,       \* the last operation issued on the cache: name, map, key, return
                \* value and the instant of the call
    ncalls,     \* the number of operations issued on the cache so far
    written,    \* per primary map and key: value and instant of the latest set
                \* since construction or clear(), and of the set before it if
                \* any (observation only)
    cleared,    \* None, or since the latest clear() with no set after it: how
                \* many entries that clear() dropped (observation only)
    config,     \* the MattermostConfig: token, login, password
    authenticated,  \* MattermostClient._authenticated
    server,     \* server.py: the globals _client and _config, the handler in
                \* progress and what it did (observation)
    batch,      \* the client operation in progress: position, the list it was
                \* called with, ids_to_fetch still to go, the dict built so far
    trace,      \* of the client operation in progress or just ended: the cache
                \* and the instant when it was called, the instant when it
                \* returned, and the wrapped remote fetches it made, in order
                \* (observation only)
    calls       \* per caller, its call through _with_retry: position, the saved
                \* error_msg, what it returned or raised, and the remote
                \* invocations it made so far, in order

cacheVars == <<now, cache, last, ncalls, written, cleared>>
batchVars == <<batch, trace>>
clientVars == <<config, authenticated, calls, batchVars, server>>
vars == <<now, cache, last, ncalls, written, cleared, config, authenticated, calls,
          batch, trace, server>>

----------------------------------------------------------------------------
(* CacheEntry *)

\* CacheEntry.__init__ forgetting the ttl
CacheEntry_without_ttl(value, t) == [value |-> value, expires_at |-> now]

\* CacheEntry.__init__: the value and time.time() + ttl
CacheEntry(value, t) == [value |-> value, expires_at |-> now + t]

\* is_expired counting the instant of expiry as expired
is_expired_from_expiry(entry) == now >= entry.expires_at

\* CacheEntry.is_expired: time.time() > expires_at
is_expired(entry) == now > entry.expires_at

----------------------------------------------------------------------------
(* CacheManager: each method maps the manager c to the manager after the   *)
(* call; a getter yields the manager after the call and the value returned *)

\* an empty dict
EmptyCache == [k \in {} |-> None]

\* an update in place: the value is replaced, the entry of a key already
\* present keeps its expiry
Put_in_place(d, key, entry) ==
    [k \in (DOMAIN d) \cup {key} |->
        IF k # key THEN d[k]
        ELSE IF key \in DOMAIN d
             THEN [value |-> entry.value, expires_at |-> d[key].expires_at]
             ELSE entry]

\* cache[key] = entry
Put(d, key, entry) ==
    [k \in (DOMAIN d) \cup {key} |-> IF k = key THEN entry ELSE d[k]]

\* CacheManager.__init__
CacheManager(t) ==
    [ttl |-> t,
     users |-> EmptyCache,
     teams |-> EmptyCache,
     team_names |-> EmptyCache,
     channels |-> EmptyCache,
     channel_names |-> EmptyCache,
     posts |-> EmptyCache]

\* _cleanup_expired finding the expired keys and deleting none
cleanup_expired_deleting_nothing(d) == d

\* CacheManager._cleanup_expired: delete every expired entry of the dict
cleanup_expired(d) ==
    [k \in {j \in DOMAIN d : ~is_expired(d[j])} |-> d[k]]

\* `entry = d.get(key)` then `entry.value if entry and not entry.is_expired() else None`
Lookup(d, key) ==
    IF key \in DOMAIN d /\ ~is_expired(d[key])
    THEN Some(d[key].value)
    ELSE None

Ret(c, value) == [cache |-> c, ret |-> value]

get_user(c, user_id) ==
    LET swept == cleanup_expired(c.users)
    IN  Ret([c EXCEPT !.users = swept], Lookup(swept, user_id))

set_user(c, user_id, user_data) ==
    [c EXCEPT !.users = Put(@, user_id, CacheEntry(user_data, c.ttl))]

get_team(c, team_id) ==
    LET swept == cleanup_expired(c.teams)
    IN  Ret([c EXCEPT !.teams = swept], Lookup(swept, team_id))

\* set_team indexing the name entry by the team id
set_team_index_by_id(c, team_id, team_data) ==
    [c EXCEPT
       !.teams = Put(@, team_id, CacheEntry(team_data, c.ttl)),
       !.team_names =
           IF "name" \in DOMAIN team_data
           THEN Put(@, team_id, CacheEntry(team_data, c.ttl))
           ELSE @]

\* set_team dropping the name entries that lead to the team id it writes
set_team_invalidating_names(c, team_id, team_data) ==
    LET kept == [n \in {m \in DOMAIN c.team_names :
                           ~("id" \in DOMAIN c.team_names[m].value
                             /\ c.team_names[m].value.id = team_id)}
                    |-> c.team_names[n]]
    IN  [c EXCEPT
           !.teams = Put(@, team_id, CacheEntry(team_data, c.ttl)),
           !.team_names =
               IF "name" \in DOMAIN team_data
               THEN Put(kept, team_data.name, CacheEntry(team_data, c.ttl))
               ELSE kept]

set_team(c, team_id, team_data) ==
    [c EXCEPT
       !.teams = Put(@, team_id, CacheEntry(team_data, c.ttl)),
       !.team_names =
           IF "name" \in DOMAIN team_data
           THEN Put(@, team_data.name, CacheEntry(team_data, c.ttl))
           ELSE @]

get_team_by_name(c, team_name) ==
    LET swept == cleanup_expired(c.team_names)
    IN  Ret([c EXCEPT !.team_names = swept], Lookup(swept, team_name))

get_channel(c, channel_id) ==
    LET swept == cleanup_expired(c.channels)
    IN  Ret([c EXCEPT !.channels = swept], Lookup(swept, channel_id))

set_channel(c, channel_id, channel_data) ==
    [c EXCEPT
       !.channels = Put(@, channel_id, CacheEntry(channel_data, c.ttl)),
       !.channel_names =
           IF "team_id" \in DOMAIN channel_data /\ "name" \in DOMAIN channel_data
           THEN Put(@, <<channel_data.team_id, channel_data.name>>,
                    CacheEntry(channel_data, c.ttl))
           ELSE @]

get_channel_by_name(c, team_id, channel_name) ==
    LET swept == cleanup_expired(c.channel_names)
    IN  Ret([c EXCEPT !.channel_names = swept],
            Lookup(swept, <<team_id, channel_name>>))

get_post(c, post_id) ==
    LET swept == cleanup_expired(c.posts)
    IN  Ret([c EXCEPT !.posts = swept], Lookup(swept, post_id))

set_post(c, post_id, post_data) ==
    [c EXCEPT !.posts = Put(@, post_id, CacheEntry(post_data, c.ttl))]

\* clear forgetting the name indices
clear_primary_only(c) ==
    [c EXCEPT
       !.users = EmptyCache,
       !.teams = EmptyCache,
       !.channels = EmptyCache,
       !.posts = EmptyCache]

\* CacheManager.clear
clear(c) ==
    [c EXCEPT
       !.users = EmptyCache,
       !.teams = EmptyCache,
       !.team_names = EmptyCache,
       !.channels = EmptyCache,
       !.channel_names = EmptyCache,
       !.posts = EmptyCache]

\* CacheManager.get_stats: the size of each primary dict
get_stats(c) ==
    [users |-> Cardinality(DOMAIN c.users),
     teams |-> Cardinality(DOMAIN c.teams),
     channels |-> Cardinality(DOMAIN c.channels),
     posts |-> Cardinality(DOMAIN c.posts)]

----------------------------------------------------------------------------
(* The cache driven directly: one action per CacheManager method *)

PrimaryMaps == {"users", "teams", "channels", "posts"}

Op(name, map, key, ret) ==
    [op |-> name, map |-> map, key |-> key, ret |-> ret, at |-> now]

NothingWritten == [m \in PrimaryMaps |-> EmptyCache]

AllMaps == PrimaryMaps \cup {"team_names", "channel_names"}

\* the number of entries the six dicts hold
RECURSIVE Total(_, _)
Total(c, maps) ==
    IF maps = {} THEN 0
    ELSE LET m == CHOOSE x \in maps : TRUE
         IN  Cardinality(DOMAIN c[m]) + Total(c, maps \ {m})

Size(c) == Total(c, AllMaps)

\* the observation of a set on a primary map
Note(map, key, value) ==
    [written EXCEPT ![map] =
        [k \in (DOMAIN @) \cup {key} |->
            IF k # key THEN @[k]
            ELSE [value |-> value, at |-> now,
                  prev |-> IF key \in DOMAIN @
                           THEN Some([value |-> @[key].value, at |-> @[key].at])
                           ELSE None]]]

\* one more operation is issued on the cache
Issue ==
    /\ ncalls < MaxCalls
    /\ ncalls' = ncalls + 1
    /\ UNCHANGED <<now, clientVars>>

\* a getter is called: the cache after it, and what it returned
Get(map, key, r) ==
    /\ Issue
    /\ cache' = r.cache
    /\ last' = Op("get", map, key, r.ret)
    /\ UNCHANGED <<written, cleared>>

\* a setter of a primary map is called
Set(map, key, value, c) ==
    /\ Issue
    /\ cache' = c
    /\ last' = Op("set", map, key, None)
    /\ written' = Note(map, key, value)
    /\ cleared' = None

GetUser(k) == Get("users", k, get_user(cache, k))
SetUser(k, v) == Set("users", k, v, set_user(cache, k, v))
GetTeam(k) == Get("teams", k, get_team(cache, k))
SetTeam(k, v) == Set("teams", k, v, set_team(cache, k, v))
GetTeamByName(n) == Get("team_names", n, get_team_by_name(cache, n))
GetChannel(k) == Get("channels", k, get_channel(cache, k))
SetChannel(k, v) == Set("channels", k, v, set_channel(cache, k, v))
GetChannelByName(t, n) ==
    Get("channel_names", <<t, n>>, get_channel_by_name(cache, t, n))
GetPost(k) == Get("posts", k, get_post(cache, k))
SetPost(k, v) == Set("posts", k, v, set_post(cache, k, v))

Clear ==
    /\ Issue
    /\ cache' = clear(cache)
    /\ last' = Op("clear", "all", None, None)
    /\ written' = NothingWritten
    /\ cleared' = Some(Size(cache))

GetStats ==
    /\ Issue
    /\ last' = Op("get_stats", "all", None, Some(get_stats(cache)))
    /\ UNCHANGED <<cache, written, cleared>>

\* the clock advances
Tick ==
    /\ now < MaxTime
    /\ now' = now + 1
    /\ UNCHANGED <<cache, last, ncalls, written, cleared, clientVars>>

----------------------------------------------------------------------------
(* MattermostConfig *)

\* token, login and password are Optional[str]; None and "" are both falsy
\* and are both written ""
Configs ==
    { c \in [token : {"", "tok"}, login : {"", "bot"}, password : {"", "pw"}] :
        \* validate_auth
        ~(c.token = "" /\ ~(c.login # "" /\ c.password # "")) }

has_token_auth(c) == c.token # ""

has_password_auth(c) == c.login # "" /\ c.password # ""

----------------------------------------------------------------------------
(* Strings *)

UpperCase == "ABCDEFGHIJKLMNOPQRSTUVWXYZ"
LowerCase == "abcdefghijklmnopqrstuvwxyz"

\* str.lower() of a one-character string
LowerChar(ch) ==
    IF \E i \in 1..Len(UpperCase) : SubSeq(UpperCase, i, i) = ch
    THEN LET i == CHOOSE j \in 1..Len(UpperCase) : SubSeq(UpperCase, j, j) = ch
         IN  SubSeq(LowerCase, i, i)
    ELSE ch

\* str.lower(): every character lowered, the string taken by halves
RECURSIVE Lower(_)
Lower(str) ==
    IF Len(str) = 0 THEN ""
    ELSE IF Len(str) = 1 THEN LowerChar(str)
    ELSE LET h == Len(str) \div 2
         IN  Lower(SubSeq(str, 1, h)) \o Lower(SubSeq(str, h + 1, Len(str)))

\* `phrase in str`
Contains(str, phrase) ==
    \E i \in 1..(Len(str) - Len(phrase) + 1) :
        SubSeq(str, i, i + Len(phrase) - 1) = phrase

----------------------------------------------------------------------------
(* What a remote invocation does: it returns a value or raises an error *)

Returned(value) == [ok |-> TRUE, value |-> value]
Raised(type, msg) == [ok |-> FALSE, type |-> type, msg |-> msg]

\* what a wrapped driver call may do
FuncOutcomes ==
    { Returned("r1"), Returned("r2"),
      Raised("NoAccessTokenProvided", "Session is invalid"),
      Raised("NoAccessTokenProvided", "401 Unauthorized"),
      Raised("ConnectionError", "Network timeout"),
      Raised("ResourceNotFound", "Channel not found") }

\* what the driver call of _authenticate (login, or get_user("me")) may do
LoginOutcomes ==
    { Returned("session"),
      Raised("NoAccessTokenProvided", "Invalid login credentials"),
      Raised("ConnectionError", "Network timeout") }

----------------------------------------------------------------------------
(* MattermostClient *)

\* MattermostClient._authenticate, given what its driver call does: whether
\* it returns, the new _authenticated, and the error it raises otherwise
authenticate(c, d) ==
    IF has_token_auth(c) THEN
        IF d.ok THEN [ok |-> TRUE, authenticated |-> TRUE]
        ELSE [ok |-> FALSE, authenticated |-> FALSE,
              error |-> Raised("Exception",
                  "Failed to authenticate with Mattermost: "
                  \o "Token authentication failed: " \o d.msg)]
    ELSE IF has_password_auth(c) THEN
        IF d.ok THEN [ok |-> TRUE, authenticated |-> TRUE]
        ELSE [ok |-> FALSE, authenticated |-> FALSE,
              error |-> Raised("Exception",
                  "Failed to authenticate with Mattermost: " \o d.msg)]
    ELSE [ok |-> FALSE, authenticated |-> FALSE,
          error |-> Raised("Exception",
              "Failed to authenticate with Mattermost: "
              \o "No valid authentication method configured")]

auth_patterns ==
    { "session is invalid",
      "invalid or expired session",
      "session expired",
      "expired session",
      "invalid session",
      "unauthorized",
      "401",
      "authentication required",
      "token expired",
      "please login again" }

\* _is_auth_error matching the phrases against the message as it is
is_auth_error_case_sensitive(error) ==
    \E phrase \in auth_patterns : Contains(error.msg, phrase)

\* MattermostClient._is_auth_error
is_auth_error(error) ==
    \E phrase \in auth_patterns : Contains(Lower(error.msg), phrase)

\* line 113 retrying whatever the error
reauthenticates_any_error(c, e) == has_password_auth(c)

\* line 113 retrying whatever the authentication mode
reauthenticates_any_mode(c, e) == is_auth_error(e)

\* _with_retry.wrapper, line 113: is the failed call reauthenticated and retried
reauthenticates(c, e) == is_auth_error(e) /\ has_password_auth(c)

\* the combined error reporting the retry failure alone
retry_failed_without_original(error_msg, retry_error) ==
    Raised("Exception",
        "Session expired and re-authentication failed. "
        \o "Retry error: " \o retry_error.msg)

\* the failure of the retry raised as it is
retry_failed_reraising(error_msg, retry_error) == retry_error

\* _with_retry.wrapper, lines 122-126: the error raised when the retry fails
retry_failed(error_msg, retry_error) ==
    Raised("Exception",
        "Session expired and re-authentication failed. "
        \o "Original error: " \o error_msg \o ". "
        \o "Retry error: " \o retry_error.msg)

----------------------------------------------------------------------------
(* A call through _with_retry, one action per remote invocation *)

Callers == {"a", "b"}

Idle == [pc |-> "idle", error_msg |-> "", out |-> None, log |-> << >>]

Invoked(what, d) == [ev |-> what, did |-> d]

\* the wrapper is entered and func is invoked (line 109); d is what func does
Call(p, d) ==
    /\ calls[p].pc = "idle"
    /\ calls' = [calls EXCEPT ![p] =
         LET log == << Invoked("func", d) >>
         IN  IF d.ok
             THEN [pc |-> "returned", error_msg |-> "", out |-> Some(d), log |-> log]
             ELSE IF reauthenticates(config, d)
             THEN [pc |-> "reauth", error_msg |-> d.msg, out |-> None, log |-> log]
             ELSE [pc |-> "raised", error_msg |-> d.msg, out |-> Some(d), log |-> log]]
    /\ UNCHANGED <<cacheVars, batchVars, server, config, authenticated>>

\* the failure of self._authenticate() swallowed: func is retried anyway
Reauthenticate_ignoring_failure(p, d) ==
    /\ calls[p].pc = "reauth"
    /\ authenticated' = authenticate(config, d).authenticated
    /\ calls' = [calls EXCEPT ![p] =
         [@ EXCEPT !.pc = "retry",
                   !.log = Append(calls[p].log, Invoked("authenticate", d))]]
    /\ UNCHANGED <<cacheVars, batchVars, server, config>>

\* reauthentication coalesced: a caller that finds another caller already
\* logged in again and retrying goes on to its own retry without logging in
Reauthenticate_coalesced(p, d) ==
    /\ calls[p].pc = "reauth"
    /\ LET a == authenticate(config, d)
           log == Append(calls[p].log, Invoked("authenticate", d))
           shared == authenticated
                     /\ \E q \in Callers \ {p} : calls[q].pc = "retry"
       IN  /\ authenticated' = IF shared THEN authenticated ELSE a.authenticated
           /\ calls' = [calls EXCEPT ![p] =
                IF shared THEN [@ EXCEPT !.pc = "retry"]
                ELSE IF a.ok
                THEN [@ EXCEPT !.pc = "retry", !.log = log]
                ELSE [@ EXCEPT !.pc = "raised", !.log = log,
                        !.out = Some(retry_failed(calls[p].error_msg, a.error))]]
    /\ UNCHANGED <<cacheVars, batchVars, server, config>>

\* self._authenticate() (line 117); d is what its driver call does
Reauthenticate(p, d) ==
    /\ calls[p].pc = "reauth"
    /\ LET a == authenticate(config, d)
           log == Append(calls[p].log, Invoked("authenticate", d))
       IN  /\ authenticated' = a.authenticated
           /\ calls' = [calls EXCEPT ![p] =
                IF a.ok
                THEN [@ EXCEPT !.pc = "retry", !.log = log]
                ELSE [@ EXCEPT !.pc = "raised", !.log = log,
                        !.out = Some(retry_failed(calls[p].error_msg, a.error))]]
    /\ UNCHANGED <<cacheVars, batchVars, server, config>>

\* the retried invocation handled like the first: reauthenticate again
Retry_again(p, d) ==
    /\ calls[p].pc = "retry"
    /\ calls' = [calls EXCEPT ![p] =
         LET log == Append(calls[p].log, Invoked("func", d))
         IN  IF d.ok
             THEN [@ EXCEPT !.pc = "returned", !.log = log, !.out = Some(d)]
             ELSE IF reauthenticates(config, d)
             THEN [@ EXCEPT !.pc = "reauth", !.log = log]
             ELSE [@ EXCEPT !.pc = "raised", !.log = log,
                     !.out = Some(retry_failed(calls[p].error_msg, d))]]
    /\ UNCHANGED <<cacheVars, batchVars, server, config, authenticated>>

\* func is invoked again (line 119); d is what func does this time
Retry(p, d) ==
    /\ calls[p].pc = "retry"
    /\ calls' = [calls EXCEPT ![p] =
         LET log == Append(calls[p].log, Invoked("func", d))
         IN  IF d.ok
             THEN [@ EXCEPT !.pc = "returned", !.log = log, !.out = Some(d)]
             ELSE [@ EXCEPT !.pc = "raised", !.log = log,
                     !.out = Some(retry_failed(calls[p].error_msg, d))]]
    /\ UNCHANGED <<cacheVars, batchVars, server, config, authenticated>>

\* the caller has its result or its error and is ready for another call
Finish(p) ==
    /\ calls[p].pc \in {"returned", "raised"}
    /\ calls' = [calls EXCEPT ![p] = Idle]
    /\ UNCHANGED <<cacheVars, batchVars, server, config, authenticated>>

\* MattermostClient.connect; d is what the driver call of _authenticate does
Connect(d) ==
    /\ \A p \in Callers : calls[p].pc = "idle"
    /\ authenticated' = authenticate(config, d).authenticated
    /\ UNCHANGED <<cacheVars, batchVars, config, calls, server>>

----------------------------------------------------------------------------
----------------------------------------------------------------------------
(* MattermostClient: the batch resolvers                                   *)

BatchUserIds == {"u1", "user-0123456"}
BatchChannelIds == {"c1", "channel-0123"}

\* what driver.users.get_user(user_id=id) may return: the user's record, or
\* a record without "id"
UserFetched(id) ==
    { [id |-> id, username |-> "alice"],
      [username |-> "ghost"] }

\* what driver.channels.get_channel(channel_id=id) may return
ChannelFetched(id) ==
    { [id |-> id, name |-> "general"],
      [id |-> id, name |-> "random"] }

RemoteErrors == {d \in FuncOutcomes : ~d.ok}

\* _is_auth_error over the errors the remote may raise, tabulated
auth_errors == [d \in RemoteErrors |-> is_auth_error(d)]
UserOutcomes(id) == {Returned(r) : r \in UserFetched(id)} \cup RemoteErrors
ChannelOutcomes(id) == {Returned(r) : r \in ChannelFetched(id)} \cup RemoteErrors

\* the lists of at most n elements of S
Lists(S, n) == UNION {[1..k -> S] : k \in 0..n}

\* the elements of a list
Elems(ids) == {ids[i] : i \in 1..Len(ids)}

\* `if cached:` on what a cache getter returned: not None and not an empty dict
Truthy(ret) == ret # None /\ DOMAIN ret[1] # {}

\* s[:8]
Prefix8(s) == SubSeq(s, 1, IF Len(s) < 8 THEN Len(s) ELSE 8)

\* the ways one call through _with_retry.wrapper can go from entry to exit,
\* when each invocation of func does one of D and the login one of
\* LoginOutcomes: what the wrapper returns or raises, the new _authenticated
\* the number of invocations of func and what the first one did
with_retry(c, auth, D) ==
    UNION {
        IF d1.ok \/ ~(auth_errors[d1] /\ has_password_auth(c))
        THEN {[out |-> d1, authenticated |-> auth, invoked |-> 1, first |-> d1]}
        ELSE UNION {
            LET login == authenticate(c, a)
            IN  IF ~login.ok
                THEN {[out |-> retry_failed(d1.msg, login.error),
                       authenticated |-> login.authenticated, invoked |-> 1,
                       first |-> d1]}
                ELSE {[out |-> IF d2.ok THEN d2 ELSE retry_failed(d1.msg, d2),
                       authenticated |-> login.authenticated, invoked |-> 2,
                       first |-> d1]
                      : d2 \in D}
            : a \in LoginOutcomes}
        : d1 \in D}

\* the first loop never finding anything in the cache
partition_without_cache(d, ids) ==
    [found |-> EmptyCache, ids_to_fetch |-> ids]

\* the first loop of _batch_get_users / _batch_get_channels over the dict d
\* of the cache (already swept by the getter): the records found and
\* ids_to_fetch, duplicates kept
partition(d, ids) ==
    [found |-> [k \in {j \in Elems(ids) : Truthy(Lookup(d, j))} |-> d[k].value],
     ids_to_fetch |-> SelectSeq(ids, LAMBDA j : ~Truthy(Lookup(d, j)))]

\* the fallback dicts of the except branches
user_fallback(user_id) ==
    [id |-> user_id, username |-> "user_" \o Prefix8(user_id),
     first_name |-> "", last_name |-> ""]

channel_fallback(channel_id) ==
    [id |-> channel_id, name |-> "channel_" \o Prefix8(channel_id),
     display_name |-> "Unknown Channel"]

\* get_user returning what it fetched without caching it
client_get_user_without_caching(c, user_id, w) ==
    LET g == get_user(c, user_id)
    IN  IF Truthy(g.ret)
        THEN [cache |-> g.cache, out |-> Returned(g.ret[1]), remote |-> FALSE]
        ELSE [cache |-> g.cache, out |-> w, remote |-> TRUE]

\* MattermostClient.get_user(user_id), user_id # "me", where w is what the
\* wrapped driver call does if it is reached: the cache after the call, what
\* is returned or raised, and whether the remote was asked
client_get_user(c, user_id, w) ==
    LET g == get_user(c, user_id)
    IN  IF Truthy(g.ret)
        THEN [cache |-> g.cache, out |-> Returned(g.ret[1]), remote |-> FALSE]
        ELSE IF ~w.ok
        THEN [cache |-> g.cache, out |-> w, remote |-> TRUE]
        ELSE [cache |-> IF "id" \in DOMAIN w.value
                        THEN set_user(g.cache, w.value.id, w.value)
                        ELSE g.cache,
              out |-> w, remote |-> TRUE]

NoBatch == [pc |-> "idle", kind |-> "none", ids |-> << >>,
            ids_to_fetch |-> << >>, out |-> EmptyCache]
NoTrace == [n |-> 0, before |-> CacheManager(0), start |-> 0, end |-> 0,
            fetches |-> << >>]


\* a wrapped remote fetch for id that gave w, as observed
Fetched(id, w) ==
    [id |-> id, ok |-> w.ok, value |-> IF w.ok THEN Some(w.value) ELSE None,
     at |-> now]

\* a client operation is called: the client is synchronous, the previous one
\* has returned or raised. The operations of one behaviour are of one kind:
\* the resolvers share no dict of the cache.
Enter(kind) ==
    /\ batch.pc \in {"idle", "returned", "raised"}
    /\ batch.kind \in {"none", kind}
    /\ trace.n < MaxBatches
    /\ UNCHANGED <<now, last, ncalls, written, cleared, config, authenticated, calls, server>>

\* _batch_get_users(user_ids), lines 212-221
BatchGetUsers(ids) ==
    /\ Enter("users")
    /\ LET swept == IF ids = << >> THEN cache.users ELSE cleanup_expired(cache.users)
           p == partition(swept, ids)
       IN  /\ cache' = [cache EXCEPT !.users = swept]
           /\ batch' = [pc |-> "fetching", kind |-> "users", ids |-> ids,
                        ids_to_fetch |-> p.ids_to_fetch, out |-> p.found]
           /\ trace' = [n |-> trace.n + 1, before |-> cache, start |-> now,
                        end |-> now, fetches |-> << >>]

\* _batch_get_channels(channel_ids), lines 248-257
BatchGetChannels(ids) ==
    /\ Enter("channels")
    /\ LET swept == IF ids = << >> THEN cache.channels
                    ELSE cleanup_expired(cache.channels)
           p == partition(swept, ids)
       IN  /\ cache' = [cache EXCEPT !.channels = swept]
           /\ batch' = [pc |-> "fetching", kind |-> "channels", ids |-> ids,
                        ids_to_fetch |-> p.ids_to_fetch, out |-> p.found]
           /\ trace' = [n |-> trace.n + 1, before |-> cache, start |-> now,
                        end |-> now, fetches |-> << >>]

\* one turn of the second loop of _batch_get_users, lines 224-235
FetchUser ==
    /\ batch.pc = "fetching" /\ batch.kind = "users"
    /\ batch.ids_to_fetch # << >>
    /\ LET user_id == Head(batch.ids_to_fetch)
       IN  \E w \in with_retry(config, authenticated, UserOutcomes(user_id)) :
             LET g == client_get_user(cache, user_id, w.out)
             IN  /\ cache' = g.cache
                 /\ authenticated' = IF g.remote THEN w.authenticated
                                     ELSE authenticated
                 /\ batch' = [batch EXCEPT
                      !.ids_to_fetch = Tail(@),
                      !.out = Put(@, user_id,
                                  IF g.out.ok THEN g.out.value
                                  ELSE user_fallback(user_id))]
                 /\ trace' = [trace EXCEPT
                      !.fetches = IF g.remote THEN Append(@, Fetched(user_id, w.out))
                                  ELSE @]
    /\ UNCHANGED <<now, last, ncalls, written, cleared, config, calls, server>>

\* one turn of the second loop of _batch_get_channels, lines 260-273
FetchChannel ==
    /\ batch.pc = "fetching" /\ batch.kind = "channels"
    /\ batch.ids_to_fetch # << >>
    /\ LET channel_id == Head(batch.ids_to_fetch)
       IN  \E w \in with_retry(config, authenticated, ChannelOutcomes(channel_id)) :
                 /\ cache' = IF w.out.ok
                             THEN set_channel(cache, channel_id, w.out.value)
                             ELSE cache
                 /\ authenticated' = w.authenticated
                 /\ batch' = [batch EXCEPT
                      !.ids_to_fetch = Tail(@),
                      !.out = Put(@, channel_id,
                                  IF w.out.ok THEN w.out.value
                                  ELSE channel_fallback(channel_id))]
                 /\ trace' = [trace EXCEPT
                      !.fetches = Append(@, Fetched(channel_id, w.out))]
    /\ UNCHANGED <<now, last, ncalls, written, cleared, config, calls, server>>

\* `return users` / `return channels`
BatchReturn ==
    /\ batch.pc = "fetching"
    /\ batch.ids_to_fetch = << >>
    /\ batch' = [batch EXCEPT !.pc = "returned"]
    /\ trace' = [trace EXCEPT !.end = now]
    /\ UNCHANGED <<cacheVars, config, authenticated, calls, server>>

----------------------------------------------------------------------------
(* MattermostClient: team name resolution                                  *)

\* the team names a caller may ask for
AskedTeamNames == {"eng", "ops", "nonexistent"}

\* the records driver.teams.get_user_teams may list: two teams, a team that
\* took the id of one and the name of the other, and a record without "id"
TeamFetched ==
    { [id |-> "t1", name |-> "eng"],
      [id |-> "t2", name |-> "ops"],
      [id |-> "t2", name |-> "eng"],
      [name |-> "eng"] }

TeamsOutcomes == {Returned(l) : l \in Lists(TeamFetched, MaxIds)} \cup RemoteErrors

\* get_teams caching nothing
cache_teams_nowhere(c, teams) == c

\* get_teams caching the first team of the list only
cache_teams_first_only(c, teams) ==
    IF teams = << >> THEN c
    ELSE IF "id" \in DOMAIN Head(teams)
         THEN set_team(c, Head(teams).id, Head(teams))
         ELSE c

\* get_teams, lines 140-142: every listed team that has an "id" is cached,
\* in the order of the list
RECURSIVE cache_teams(_, _)
cache_teams(c, teams) ==
    IF teams = << >> THEN c
    ELSE cache_teams(
             IF "id" \in DOMAIN Head(teams)
             THEN set_team(c, Head(teams).id, Head(teams))
             ELSE c,
             Tail(teams))

\* team.get("name") == team_name
named(team, team_name) == "name" \in DOMAIN team /\ team.name = team_name

\* the scan returning None when no team has the name
find_team_or_none(teams, team_name) ==
    LET hits == {i \in 1..Len(teams) : named(teams[i], team_name)}
    IN  IF hits = {}
        THEN Returned(None)
        ELSE Returned(teams[CHOOSE i \in hits : \A j \in hits : i <= j])

\* get_team_by_name, lines 462-466: the first team of the list with the name,
\* or ValueError
find_team(teams, team_name) ==
    LET hits == {i \in 1..Len(teams) : named(teams[i], team_name)}
    IN  IF hits = {}
        THEN Raised("ValueError", "Team '" \o team_name \o "' not found")
        ELSE Returned(teams[CHOOSE i \in hits : \A j \in hits : i <= j])

\* get_team_by_name going to the remote whatever the name index holds
ClientGetTeamByName_without_cache(team_name) ==
    /\ Enter("team_by_name")
    /\ cache' = get_team_by_name(cache, team_name).cache
    /\ batch' = [pc |-> "get_teams", kind |-> "team_by_name",
                 ids |-> << team_name >>, ids_to_fetch |-> << >>, out |-> None]
    /\ trace' = [n |-> trace.n + 1, before |-> cache, start |-> now,
                 end |-> now, fetches |-> << >>]

\* get_team_by_name(team_name), lines 456-459: the name index is looked up
ClientGetTeamByName(team_name) ==
    /\ Enter("team_by_name")
    /\ LET g == get_team_by_name(cache, team_name)
       IN  /\ cache' = g.cache
           /\ batch' = IF Truthy(g.ret)
                       THEN [pc |-> "returned", kind |-> "team_by_name",
                             ids |-> << team_name >>, ids_to_fetch |-> << >>,
                             out |-> Returned(g.ret[1])]
                       ELSE [pc |-> "get_teams", kind |-> "team_by_name",
                             ids |-> << team_name >>, ids_to_fetch |-> << >>,
                             out |-> None]
           /\ trace' = [n |-> trace.n + 1, before |-> cache, start |-> now,
                        end |-> now, fetches |-> << >>]

\* get_team_by_name, lines 462-466: get_teams() returns or raises, and the list
\* is scanned
ClientGetTeams ==
    /\ batch.pc = "get_teams"
    /\ \E w \in with_retry(config, authenticated, TeamsOutcomes) :
         LET out == IF w.out.ok THEN find_team(w.out.value, batch.ids[1])
                    ELSE w.out
         IN  /\ cache' = IF w.out.ok THEN cache_teams(cache, w.out.value)
                         ELSE cache
             /\ authenticated' = w.authenticated
             /\ batch' = [batch EXCEPT
                  !.pc = IF out.ok THEN "returned" ELSE "raised",
                  !.out = out]
             /\ trace' = [trace EXCEPT
                  !.end = now,
                  !.fetches = Append(@, Fetched("teams", w.out))]
    /\ UNCHANGED <<now, last, ncalls, written, cleared, config, calls, server>>

----------------------------------------------------------------------------
(* MattermostClient: channel name resolution                               *)

AskedChannelNames == {"general", "random"}

\* what driver.channels.get_channel_by_name(team_id, channel_name) may
\* return: the channel's record, or a record without "team_id", or one
\* without "id", or the record of a channel of another team
ChannelByNameFetched(team_id, channel_name) ==
    { [id |-> "c-" \o channel_name, team_id |-> team_id, name |-> channel_name],
      [id |-> "c-" \o channel_name, name |-> channel_name],
      [id |-> "c-" \o channel_name, team_id |-> "t2", name |-> channel_name],
      [team_id |-> team_id, name |-> channel_name] }

ChannelByNameOutcomes(team_id, channel_name) ==
    {Returned(r) : r \in ChannelByNameFetched(team_id, channel_name)}
        \cup RemoteErrors

\* a wrapped remote lookup that went as w, as observed
Looked(what, w) ==
    [id |-> what, ok |-> w.out.ok,
     value |-> IF w.out.ok THEN Some(w.out.value) ELSE None, at |-> now,
     first |-> w.first, invoked |-> w.invoked]

\* get_channel_by_name caching nothing of what it fetched
cache_channel_nowhere(c, channel) == c

\* get_channel_by_name, lines 186-187
cache_channel(c, channel) ==
    IF "id" \in DOMAIN channel THEN set_channel(c, channel.id, channel) ELSE c

\* get_channel_by_name(team_id, channel_name), lines 174-176: the name index
\* is looked up
ClientGetChannelByName(team_id, channel_name) ==
    /\ Enter("channel_by_name")
    /\ LET g == get_channel_by_name(cache, team_id, channel_name)
       IN  /\ cache' = g.cache
           /\ batch' = IF Truthy(g.ret)
                       THEN [pc |-> "returned", kind |-> "channel_by_name",
                             ids |-> << team_id, channel_name >>,
                             ids_to_fetch |-> << >>, out |-> Returned(g.ret[1])]
                       ELSE [pc |-> "get_channel_by_name", kind |-> "channel_by_name",
                             ids |-> << team_id, channel_name >>,
                             ids_to_fetch |-> << >>, out |-> None]
           /\ trace' = [n |-> trace.n + 1, before |-> cache, start |-> now,
                        end |-> now, fetches |-> << >>]

\* a lookup that, when the by-name endpoint fails, scans the channel list
\* of the team and finds the channel there
ClientLookupChannel_falling_back ==
    /\ batch.pc = "get_channel_by_name"
    /\ \E w \in with_retry(config, authenticated,
                           ChannelByNameOutcomes(batch.ids[1], batch.ids[2])) :
         LET found == [id |-> "c-" \o batch.ids[2], team_id |-> batch.ids[1],
                       name |-> batch.ids[2]]
             out == IF w.out.ok THEN w.out ELSE Returned(found)
         IN  /\ cache' = cache_channel(cache, out.value)
             /\ authenticated' = w.authenticated
             /\ batch' = [batch EXCEPT !.pc = "returned", !.out = out]
             /\ trace' = [trace EXCEPT
                  !.end = now,
                  !.fetches = IF w.out.ok
                              THEN Append(@, Looked("channel_by_name", w))
                              ELSE @ \o << Looked("channel_by_name", w),
                                           Fetched("channels", out) >>]
    /\ UNCHANGED <<now, last, ncalls, written, cleared, config, calls, server>>

\* get_channel_by_name, lines 179-189: the wrapped by-name lookup returns or
\* raises
ClientLookupChannel ==
    /\ batch.pc = "get_channel_by_name"
    /\ \E w \in with_retry(config, authenticated,
                           ChannelByNameOutcomes(batch.ids[1], batch.ids[2])) :
         /\ cache' = IF w.out.ok THEN cache_channel(cache, w.out.value) ELSE cache
         /\ authenticated' = w.authenticated
         /\ batch' = [batch EXCEPT
              !.pc = IF w.out.ok THEN "returned" ELSE "raised",
              !.out = w.out]
         /\ trace' = [trace EXCEPT
              !.end = now,
              !.fetches = Append(@, Looked("channel_by_name", w))]
    /\ UNCHANGED <<now, last, ncalls, written, cleared, config, calls, server>>

----------------------------------------------------------------------------
(* MattermostClient: the operations by team and channel name               *)

ByNameKinds == {"send_message_by_channel_name", "get_posts_by_channel_name"}
Messages == {"hello"}
ByNameTeams == {"eng", "nonexistent"}
ByNameChannels == {"general"}

\* what the team list and the by-name lookup may give to these operations:
\* the team, a team without "id" or an empty list; the channel or a channel
\* without "id"; or an error
ByNameTeamsOutcomes ==
    { Returned(<< [id |-> "t1", name |-> "eng"] >>),
      Returned(<< [name |-> "eng"] >>),
      Returned(<< >>) } \cup RemoteErrors
ByNameChannelOutcomes(team_id, channel_name) ==
    { Returned([id |-> "c-" \o channel_name, team_id |-> team_id,
                name |-> channel_name]),
      Returned([team_id |-> team_id, name |-> channel_name]) } \cup RemoteErrors

\* what driver.posts.create_post may return
PostCreated == { [id |-> "p9", message |-> "hello"] }
CreateOutcomes == {Returned(r) : r \in PostCreated} \cup RemoteErrors

\* what driver.posts.get_posts_for_channel may return: one post of u1, or
\* nothing
PostsFetched ==
    { [posts |-> [k \in {"p1"} |-> [id |-> "p1", user_id |-> "u1",
                                    message |-> "hello"]],
       order |-> << "p1" >>],
      [posts |-> [k \in {} |-> None], order |-> << >>] }
PostsOutcomes == {Returned(r) : r \in PostsFetched} \cup RemoteErrors

\* a remote call with its arguments and what its wrapper gave, as observed
Called(what, args, w) ==
    [id |-> what, args |-> args, ok |-> w.out.ok]

\* get_team_by_name(team_name), lines 456-466, where w is how the wrapped
\* list fetch of get_teams goes if it is reached
client_get_team_by_name(c, team_name, w) ==
    LET g == get_team_by_name(c, team_name)
    IN  IF Truthy(g.ret)
        THEN [cache |-> g.cache, out |-> Returned(g.ret[1]), remote |-> FALSE]
        ELSE IF ~w.out.ok
        THEN [cache |-> g.cache, out |-> w.out, remote |-> TRUE]
        ELSE [cache |-> cache_teams(g.cache, w.out.value),
              out |-> find_team(w.out.value, team_name), remote |-> TRUE]

\* get_channel_by_name(team_id, channel_name), lines 174-189, where w is how
\* the wrapped by-name lookup goes if it is reached
client_get_channel_by_name(c, team_id, channel_name, w) ==
    LET g == get_channel_by_name(c, team_id, channel_name)
    IN  IF Truthy(g.ret)
        THEN [cache |-> g.cache, out |-> Returned(g.ret[1]), remote |-> FALSE]
        ELSE IF ~w.out.ok
        THEN [cache |-> g.cache, out |-> w.out, remote |-> TRUE]
        ELSE [cache |-> cache_channel(g.cache, w.out.value),
              out |-> w.out, remote |-> TRUE]

\* record["id"]
KeyError == Raised("KeyError", "'id'")

\* get_posts, lines 295-298: every post fetched is cached
RECURSIVE cache_posts(_, _, _)
cache_posts(c, posts, todo) ==
    IF todo = {} THEN c
    ELSE LET post_id == CHOOSE k \in todo : TRUE
         IN  cache_posts(set_post(c, post_id, posts[post_id]), posts,
                         todo \ {post_id})

\* get_posts_enriched, lines 321: the user ids of the posts
user_ids_of(posts) ==
    {posts[k].user_id : k \in {j \in DOMAIN posts : "user_id" \in DOMAIN posts[j]}}

\* get_posts_enriched, lines 327-343, for users without first and last name
enriched(posts, order, users) ==
    [i \in 1..Len(order) |->
        LET post == posts[order[i]]
            user == IF post.user_id \in DOMAIN users THEN users[post.user_id]
                    ELSE EmptyCache
        IN  [id |-> post.id, user_id |-> post.user_id,
             username |-> IF "username" \in DOMAIN user THEN user.username
                          ELSE "unknown",
             user_display_name |-> IF "username" \in DOMAIN user
                                   THEN user.username ELSE "Unknown User",
             message |-> post.message]]

\* send_message_by_channel_name / get_posts_by_channel_name is called
ByChannelName(kind, team_name, channel_name) ==
    /\ Enter(kind)
    /\ batch' = [pc |-> "get_team_by_name", kind |-> kind,
                 ids |-> << team_name, channel_name >>,
                 ids_to_fetch |-> << >>, out |-> None,
                 team |-> None, channel |-> None]
    /\ trace' = [NoTrace EXCEPT !.n = trace.n + 1]
    /\ cache' = cache

\* a channel looked up in a team of its own choosing when the team could not
\* be resolved
ResolveTeam_going_on ==
    /\ batch.kind \in ByNameKinds /\ batch.pc = "get_team_by_name"
    /\ \E w \in with_retry(config, authenticated, ByNameTeamsOutcomes) :
         LET r == client_get_team_by_name(cache, batch.ids[1], w)
             good == r.out.ok /\ "id" \in DOMAIN r.out.value
         IN  /\ cache' = r.cache
             /\ authenticated' = IF r.remote THEN w.authenticated
                                 ELSE authenticated
             /\ batch' = [batch EXCEPT
                  !.pc = "get_channel_by_name",
                  !.team = IF good THEN Some(r.out.value) ELSE None]
             /\ trace' = [trace EXCEPT
                  !.fetches = IF r.remote
                              THEN Append(@, Called("get_user_teams", << "me" >>, w))
                              ELSE @]
    /\ UNCHANGED <<now, last, ncalls, written, cleared, config, calls, server>>

\* `team = self.get_team_by_name(team_name)`, `team_id = team["id"]`
ResolveTeam ==
    /\ batch.kind \in ByNameKinds /\ batch.pc = "get_team_by_name"
    /\ \E w \in with_retry(config, authenticated, ByNameTeamsOutcomes) :
         LET r == client_get_team_by_name(cache, batch.ids[1], w)
             good == r.out.ok /\ "id" \in DOMAIN r.out.value
         IN  /\ cache' = r.cache
             /\ authenticated' = IF r.remote THEN w.authenticated
                                 ELSE authenticated
             /\ batch' = [batch EXCEPT
                  !.pc = IF good THEN "get_channel_by_name" ELSE "raised",
                  !.out = IF good THEN None
                          ELSE IF r.out.ok THEN KeyError ELSE r.out,
                  !.team = IF good THEN Some(r.out.value) ELSE None]
             /\ trace' = [trace EXCEPT
                  !.fetches = IF r.remote
                              THEN Append(@, Called("get_user_teams", << "me" >>, w))
                              ELSE @]
    /\ UNCHANGED <<now, last, ncalls, written, cleared, config, calls, server>>

\* the team_id given to get_channel_by_name
team_id_of(b) == IF b.team = None THEN "t1" ELSE b.team[1].id

\* `channel = self.get_channel_by_name(team_id, channel_name)`,
\* `channel_id = channel["id"]`
ResolveChannel ==
    /\ batch.kind \in ByNameKinds /\ batch.pc = "get_channel_by_name"
    /\ LET team_id == team_id_of(batch)
       IN \E w \in with_retry(config, authenticated,
                              ByNameChannelOutcomes(team_id, batch.ids[2])) :
         LET r == client_get_channel_by_name(cache, team_id, batch.ids[2], w)
             good == r.out.ok /\ "id" \in DOMAIN r.out.value
         IN  /\ cache' = r.cache
             /\ authenticated' = IF r.remote THEN w.authenticated
                                 ELSE authenticated
             /\ batch' = [batch EXCEPT
                  !.pc = IF ~good THEN "raised"
                         ELSE IF batch.kind = "send_message_by_channel_name"
                         THEN "create_post" ELSE "get_posts",
                  !.out = IF good THEN None
                          ELSE IF r.out.ok THEN KeyError ELSE r.out,
                  !.channel = IF good THEN Some(r.out.value) ELSE None]
             /\ trace' = [trace EXCEPT
                  !.fetches = IF r.remote
                              THEN Append(@, Called("get_channel_by_name",
                                                    << team_id, batch.ids[2] >>, w))
                              ELSE @]
    /\ UNCHANGED <<now, last, ncalls, written, cleared, config, calls, server>>

\* `return self.create_post(channel_id, message, reply_to)`, lines 347-365
CreatePost(message) ==
    /\ batch.pc = "create_post"
    /\ \E w \in with_retry(config, authenticated, CreateOutcomes) :
         /\ authenticated' = w.authenticated
         /\ batch' = [batch EXCEPT
              !.pc = IF w.out.ok THEN "returned" ELSE "raised",
              !.out = w.out]
         /\ trace' = [trace EXCEPT
              !.fetches = Append(@, Called("create_post",
                                           << batch.channel[1].id, message >>, w))]
    /\ UNCHANGED <<cacheVars, config, calls, server>>

\* get_posts_enriched: get_posts(channel_id, page, per_page), lines 290-300
GetPosts ==
    /\ batch.pc = "get_posts"
    /\ \E w \in with_retry(config, authenticated, PostsOutcomes) :
         /\ cache' = IF w.out.ok
                     THEN cache_posts(cache, w.out.value.posts,
                                      DOMAIN w.out.value.posts)
                     ELSE cache
         /\ authenticated' = w.authenticated
         /\ batch' = [batch EXCEPT
              !.pc = IF w.out.ok THEN "_batch_get_users" ELSE "raised",
              !.out = w.out]
         /\ trace' = [trace EXCEPT
              !.fetches = Append(@, Called("get_posts_for_channel",
                                           << batch.channel[1].id >>, w))]
    /\ UNCHANGED <<now, last, ncalls, written, cleared, config, calls, server>>

\* get_posts_enriched, lines 318-345: the users of the posts are resolved
\* (there is at most one) and the posts enriched
EnrichPosts ==
    /\ batch.pc = "_batch_get_users"
    /\ LET posts == batch.out.value.posts
           order == batch.out.value.order
           user_ids == user_ids_of(posts)
       IN  IF user_ids = {}
           THEN /\ batch' = [batch EXCEPT !.pc = "returned",
                                !.out = Returned(enriched(posts, order, EmptyCache))]
                /\ UNCHANGED <<cache, authenticated, trace>>
           ELSE LET user_id == CHOOSE u \in user_ids : TRUE
                    swept == cleanup_expired(cache.users)
                    p == partition(swept, << user_id >>)
                    c == [cache EXCEPT !.users = swept]
                IN  \E w \in with_retry(config, authenticated, UserOutcomes(user_id)) :
                      LET g == client_get_user(c, user_id, w.out)
                          fetch == p.ids_to_fetch # << >>
                          users == IF ~fetch THEN p.found
                                   ELSE Put(p.found, user_id,
                                            IF g.out.ok THEN g.out.value
                                            ELSE user_fallback(user_id))
                      IN  /\ cache' = IF fetch THEN g.cache ELSE c
                          /\ authenticated' = IF fetch /\ g.remote
                                              THEN w.authenticated
                                              ELSE authenticated
                          /\ batch' = [batch EXCEPT !.pc = "returned",
                               !.out = Returned(enriched(posts, order, users))]
                          /\ trace' = [trace EXCEPT
                               !.fetches = IF fetch /\ g.remote
                                           THEN Append(@, Called("get_user",
                                                                 << user_id >>, w))
                                           ELSE @]
    /\ UNCHANGED <<now, last, ncalls, written, cleared, config, calls, server>>

----------------------------------------------------------------------------
(* server.py: the global client, get_client, call_tool, cleanup_client     *)

ToolNames == {"get_teams", "no_such_tool"}
PostsTools == {"get_posts", "get_posts_by_name"}
SearchTools == {"search_messages", "search_messages_by_team_name"}
KnownTools == {"get_teams"} \cup PostsTools \cup SearchTools

\* [TextContent(type="text", text=s)]
Text(s) == << [type |-> "text", text |-> s] >>

\* what MattermostClient(_config), connect(), the client call of a tool and
\* disconnect() may do
ConstructOutcomes == {Returned("client"), Raised("ValueError", "Invalid URL")}
ConnectOutcomes == {Returned("connected"), Raised("Exception", "Connection failed")}
DisconnectOutcomes == {Returned("logout"), Raised("Exception", "Disconnect failed")}
ToolMessages ==
    { "Session is invalid or expired",
      "401 Unauthorized",
      "Session expired",
      "Status 401",
      "HTTP 401",
      "Network timeout" }
ToolOutcomes(name) ==
    IF name \in KnownTools
    THEN {Returned("[]")} \cup {Raised("Exception", m) : m \in ToolMessages}
    ELSE {Raised("ValueError", "Unknown tool: " \o name)}
\* the errors the client raises in the posts and search tools: an error of
\* the remote, or the failures of the resolution by name
ClientErrors ==
    RemoteErrors \cup {KeyError, Raised("ValueError", "Team 'nonexistent' not found")}
\* the errors the wrapper raises when its reauthentication or its retry fails
CombinedErrors ==
    { retry_failed(d.msg, e) :
        d \in {x \in RemoteErrors : auth_errors[x]},
        e \in RemoteErrors \cup
              { authenticate(c, a).error :
                  c \in {x \in Configs : has_password_auth(x)},
                  a \in {x \in LoginOutcomes : ~x.ok} } }
ToolErrors ==
    {d \in UNION {ToolOutcomes(name) : name \in ToolNames} : ~d.ok}
        \cup ClientErrors \cup CombinedErrors

\* call_tool, lines 434-443
auth_error_indicators ==
    { "session is invalid",
      "session expired",
      "invalid or expired session",
      "unauthorized",
      "authentication required",
      "authentication failed",
      "token expired",
      "please login again" }

\* a classification that takes every error for an authentication error
call_tool_is_auth_error_always(msg) == TRUE

\* call_tool, lines 431 and 445-449: is_auth_error of str(e)
call_tool_is_auth_error(msg) ==
    LET error_msg == Lower(msg)
    IN  \/ \E indicator \in auth_error_indicators : Contains(error_msg, indicator)
        \/ /\ Contains(error_msg, "401")
           /\ Contains(error_msg, "status") \/ Contains(error_msg, "error")

\* the classification of the errors a tool may raise, tabulated
tool_auth_errors == [d \in ToolErrors |-> call_tool_is_auth_error(d.msg)]

\* what a handler did, for observation: the outcome of the constructor, of
\* connect, of the tool's client call and of disconnect, when reached
NothingDone == [ctor |-> None, conn |-> None, tool |-> None, disc |-> None,
                got |-> None]

\* the globals at the start of the process; cfg is whether main() has set
\* _config
NoServer(cfg) ==
    [client |-> None, config |-> cfg, pc |-> "idle", op |-> "none", name |-> "",
     n |-> 0, constructed |-> 0, connects |-> 0, disconnects |-> 0,
     out |-> None, entry |-> None, did |-> NothingDone]

\* a handler is entered
Entered(s, op, name) ==
    [s EXCEPT !.op = op, !.name = name, !.n = @ + 1, !.out = None,
              !.entry = Some([client |-> s.client, constructed |-> s.constructed,
                              connects |-> s.connects,
                              disconnects |-> s.disconnects]),
              !.did = NothingDone]

\* get_client has returned or raised `got`: get_client itself ends with it,
\* call_tool goes on to the tool or returns a connection error, lines 290-293
after_get_client(s, got) ==
    LET t == [s EXCEPT !.did.got = Some(got)]
    IN  IF s.op = "get_client"
        THEN [t EXCEPT !.pc = "idle", !.out = got]
        ELSE IF got.ok
        THEN [t EXCEPT !.pc = "tool"]
        ELSE [t EXCEPT !.pc = "idle",
                       !.out = Returned(Text("Connection error: " \o got.msg))]

failed_to_connect(e) ==
    Raised("RuntimeError", "Failed to connect to Mattermost: " \o e.msg)

\* a get_client that makes a client at every call
get_client_always_constructing(s, ctor) ==
    IF ~s.config
    THEN after_get_client(s, Raised("RuntimeError", "Configuration not initialized"))
    ELSE LET t == [s EXCEPT !.constructed = @ + 1, !.did.ctor = Some(ctor)]
         IN  IF ~ctor.ok
             THEN after_get_client(t, failed_to_connect(ctor))
             ELSE [t EXCEPT !.client = Some([id |-> t.constructed,
                                             connected |-> FALSE]),
                            !.pc = "connecting"]

\* get_client, lines 49-54 and 61: up to the constructor
get_client(s, ctor) ==
    IF s.client # None
    THEN after_get_client(s, Returned(s.client[1]))
    ELSE IF ~s.config
    THEN after_get_client(s, Raised("RuntimeError", "Configuration not initialized"))
    ELSE LET t == [s EXCEPT !.constructed = @ + 1, !.did.ctor = Some(ctor)]
         IN  IF ~ctor.ok
             THEN after_get_client(t, failed_to_connect(ctor))
             ELSE [t EXCEPT !.client = Some([id |-> t.constructed,
                                             connected |-> FALSE]),
                            !.pc = "connecting"]

\* a connection failure that leaves the client installed
connected_keeping_client(s, conn) ==
    LET t == [s EXCEPT !.connects = @ + 1, !.did.conn = Some(conn)]
    IN  IF conn.ok
        THEN LET u == [t EXCEPT !.client[1].connected = TRUE]
             IN  after_get_client(u, Returned(u.client[1]))
        ELSE after_get_client(t, failed_to_connect(conn))

\* get_client, lines 55-61: `await _client.connect()` returns or raises
connected(s, conn) ==
    LET t == [s EXCEPT !.connects = @ + 1, !.did.conn = Some(conn)]
    IN  IF conn.ok
        THEN LET u == [t EXCEPT !.client[1].connected = TRUE]
             IN  after_get_client(u, Returned(u.client[1]))
        ELSE after_get_client([t EXCEPT !.client = None], failed_to_connect(conn))

\* an error handler that reports the authentication error and keeps the
\* client
tool_called_keeping_client(s, d) ==
    LET t == [s EXCEPT !.did.tool = Some(d), !.pc = "idle"]
    IN  IF d.ok
        THEN [t EXCEPT !.out = Returned(Text(d.value))]
        ELSE IF tool_auth_errors[d]
        THEN [t EXCEPT
                 !.out = Returned(Text(
                     "Authentication error (will retry on next request): " \o d.msg))]
        ELSE [t EXCEPT !.out = Returned(Text("Error: " \o d.msg))]

\* call_tool, lines 295-458: the tool's client call returns or raises d
tool_called(s, d) ==
    LET t == [s EXCEPT !.did.tool = Some(d), !.pc = "idle"]
    IN  IF d.ok
        THEN [t EXCEPT !.out = Returned(Text(d.value))]
        ELSE IF tool_auth_errors[d]
        THEN [t EXCEPT !.client = None,
                 !.out = Returned(Text(
                     "Authentication error (will retry on next request): " \o d.msg))]
        ELSE [t EXCEPT !.out = Returned(Text("Error: " \o d.msg))]

\* a cleanup that lets the error of disconnect through
cleanup_client_raising(s, disc) ==
    IF s.client = None THEN [s EXCEPT !.out = Returned(None)]
    ELSE [s EXCEPT !.disconnects = @ + 1, !.did.disc = Some(disc),
                   !.client = IF disc.ok THEN None ELSE @,
                   !.out = IF disc.ok THEN Returned(None) ELSE disc]

\* cleanup_client, lines 29-38
cleanup_client(s, disc) ==
    IF s.client = None THEN [s EXCEPT !.out = Returned(None)]
    ELSE [s EXCEPT !.disconnects = @ + 1, !.did.disc = Some(disc),
                   !.client = None, !.out = Returned(None)]

serverFrame == <<cacheVars, config, authenticated, calls, batchVars>>

\* `await get_client()` is called
GetClient ==
    /\ server.pc = "idle" /\ server.n < MaxCalls
    /\ \E ctor \in ConstructOutcomes :
         server' = get_client(Entered(server, "get_client", ""), ctor)
    /\ UNCHANGED serverFrame

\* call_tool(name, arguments) is called, and calls get_client
CallTool(name) ==
    /\ server.pc = "idle" /\ server.n < MaxCalls
    /\ \E ctor \in ConstructOutcomes :
         server' = get_client(Entered(server, "call_tool", name), ctor)
    /\ UNCHANGED serverFrame

\* connect() returns or raises in get_client
ClientConnect ==
    /\ server.pc = "connecting"
    /\ \E conn \in ConnectOutcomes : server' = connected(server, conn)
    /\ UNCHANGED serverFrame

\* connect() of the client get_client has just constructed returns or
\* raises, the flag of the new client set by its _authenticate
ClientConnectNew ==
    /\ server.pc = "connecting"
    /\ \E conn \in ConnectOutcomes :
         /\ server' = connected(server, conn)
         /\ authenticated' = conn.ok
    /\ UNCHANGED <<cacheVars, config, calls, batchVars>>

\* the tool's branch of call_tool returns or raises
ToolCall ==
    /\ server.pc = "tool"
    /\ server.name \notin PostsTools \cup SearchTools
    /\ \E d \in ToolOutcomes(server.name) : server' = tool_called(server, d)
    /\ UNCHANGED serverFrame

\* `await cleanup_client()` is called
CleanupClient ==
    /\ server.pc = "idle" /\ server.n < MaxCalls
    /\ \E disc \in DisconnectOutcomes :
         server' = cleanup_client(Entered(server, "cleanup_client", ""), disc)
    /\ UNCHANGED serverFrame

----------------------------------------------------------------------------
(* server.py: the posts tools                                              *)

\* arguments.get(key, default)
ArgGet(arguments, key, default) ==
    IF key \in DOMAIN arguments THEN arguments[key] ELSE default

\* seq[:n]
Take(seq, n) ==
    IF n >= 0 THEN SubSeq(seq, 1, IF n < Len(seq) THEN n ELSE Len(seq))
    ELSE SubSeq(seq, 1, IF Len(seq) + n > 0 THEN Len(seq) + n ELSE 0)

\* json.dumps(value, indent=2), as the document of the value
json_dumps(value) == [json |-> value]

\* call_tool, lines 299-306: the essential fields of the teams, by .get
formatted_teams(teams) ==
    [i \in 1..Len(teams) |->
        [f \in {"id", "name", "display_name"} |->
            IF f \in DOMAIN teams[i] THEN Some(teams[i][f]) ELSE None]]

\* what driver.teams.get_user_teams may do for the get_teams tool
GetTeamsOutcomes ==
    { Returned(<< [id |-> "t1", name |-> "eng"] >>), Returned(<< >>) }
        \cup RemoteErrors

\* the get_teams branch of call_tool, lines 296-307, with the client's
\* get_teams behind it: the wrapped list call, the teams cached, the text
GetTeamsToolCall ==
    /\ server.pc = "tool" /\ server.name = "get_teams"
    /\ \E w \in with_retry(config, authenticated, GetTeamsOutcomes) :
         /\ cache' = IF w.out.ok THEN cache_teams(cache, w.out.value) ELSE cache
         /\ authenticated' = w.authenticated
         /\ server' = tool_called(server,
                IF w.out.ok
                THEN Returned(json_dumps(formatted_teams(w.out.value)))
                ELSE w.out)
         /\ batch' = [pc |-> IF w.out.ok THEN "returned" ELSE "raised",
                      kind |-> "get_teams", ids |-> << >>,
                      ids_to_fetch |-> << >>, out |-> Some(w.out),
                      first |-> w.first, invoked |-> w.invoked]
    /\ UNCHANGED <<now, last, ncalls, written, cleared, config, calls, trace>>

\* the posts the remote may hold, of two authors, and what
\* get_posts_for_channel may return of them: "order" and the posts it names
ToolPosts ==
    [k \in {"p1", "p2"} |->
        [id |-> k, user_id |-> IF k = "p1" THEN "u1" ELSE "u2",
         channel_id |-> "c1", message |-> "hello"]]
Orders ==
    {l \in Lists(DOMAIN ToolPosts, MaxIds) :
        \A i, j \in 1..Len(l) : i # j => l[i] # l[j]}
ToolPostsFetched ==
    {[posts |-> [k \in Elems(order) |-> ToolPosts[k]], order |-> order] :
        order \in Orders}
ToolRemoteErrors == { Raised("ConnectionError", "Network timeout") }
ToolPostsOutcomes == {Returned(r) : r \in ToolPostsFetched} \cup ToolRemoteErrors
ToolUserOutcomes(id) ==
    { Returned([id |-> id, username |-> "alice"]),
      Raised("ConnectionError", "Network timeout") }

\* the values a caller gives to limit / per_page
Limits == 0..MaxIds
\* the optional arguments: none, limit or per_page
OptionalArguments ==
    {[k \in {} |-> 0]} \cup {("limit" :> n) : n \in Limits}
        \cup {("per_page" :> n) : n \in Limits}

\* list(set(...)): the elements of a set in some order
RECURSIVE ListOf(_)
ListOf(S) ==
    IF S = {} THEN << >>
    ELSE LET x == CHOOSE y \in S : TRUE IN << x >> \o ListOf(S \ {x})

\* the second loop of _batch_get_users, lines 224-235, where uf[id] is how
\* the wrapped fetch of id goes if it is reached
RECURSIVE fetch_users(_, _, _, _, _)
fetch_users(c, todo, uf, users, fetched) ==
    IF todo = << >> THEN [cache |-> c, out |-> users, fetched |-> fetched]
    ELSE LET user_id == Head(todo)
             g == client_get_user(c, user_id, uf[user_id].out)
         IN  fetch_users(g.cache, Tail(todo), uf,
                         Put(users, user_id,
                             IF g.out.ok THEN g.out.value
                             ELSE user_fallback(user_id)),
                         IF g.remote THEN Append(fetched, user_id) ELSE fetched)

\* _batch_get_users(user_ids), lines 203-237
batch_get_users(c, user_ids, uf) ==
    LET swept == IF user_ids = << >> THEN c.users ELSE cleanup_expired(c.users)
        p == partition(swept, user_ids)
    IN  fetch_users([c EXCEPT !.users = swept], p.ids_to_fetch, uf, p.found, << >>)

\* get_posts_enriched(channel_id, page, per_page), lines 303-347, where wp is
\* how the wrapped get_posts_for_channel goes
client_get_posts_enriched(c, wp, per_page, uf) ==
    IF ~wp.out.ok
    THEN [cache |-> c, out |-> wp.out, fetched |-> << >>]
    ELSE LET posts == wp.out.value.posts
             order == wp.out.value.order
             c1 == cache_posts(c, posts, DOMAIN posts)
             b == batch_get_users(c1, ListOf(user_ids_of(posts)), uf)
         IN  [cache |-> b.cache,
              out |-> Returned(enriched(posts, Take(order, per_page), b.out)),
              fetched |-> b.fetched]

\* get_posts_by_channel_name(team_name, channel_name, page, per_page), lines
\* 468-491; asked is whether get_posts_for_channel was reached
client_get_posts_by_channel_name(c, team_name, channel_name, per_page, wt, wc, wp, uf) ==
    LET t == client_get_team_by_name(c, team_name, wt)
    IN  IF ~t.out.ok
        THEN [cache |-> t.cache, out |-> t.out, fetched |-> << >>, asked |-> FALSE]
        ELSE IF "id" \notin DOMAIN t.out.value
        THEN [cache |-> t.cache, out |-> KeyError, fetched |-> << >>, asked |-> FALSE]
        ELSE
        LET ch == client_get_channel_by_name(t.cache, t.out.value.id,
                                             channel_name, wc)
        IN  IF ~ch.out.ok
            THEN [cache |-> ch.cache, out |-> ch.out, fetched |-> << >>,
                  asked |-> FALSE]
            ELSE IF "id" \notin DOMAIN ch.out.value
            THEN [cache |-> ch.cache, out |-> KeyError, fetched |-> << >>,
                  asked |-> FALSE]
            ELSE LET r == client_get_posts_enriched(ch.cache, wp, per_page, uf)
                 IN  [cache |-> r.cache, out |-> r.out, fetched |-> r.fetched,
                      asked |-> TRUE]

\* the default of per_page in call_tool
DefaultPerPage == 20

\* call_tool, lines 324-340: the branches of get_posts and get_posts_by_name;
\* d is what the branch returns as text or raises
posts_tool(c, name, arguments, wt, wc, wp, uf) ==
    LET per_page == ArgGet(arguments, "per_page", DefaultPerPage)
        r == IF name = "get_posts"
             THEN client_get_posts_enriched(c, wp, per_page, uf)
                      @@ [asked |-> TRUE]
             ELSE client_get_posts_by_channel_name(
                      c, arguments.team_name, arguments.channel_name, per_page,
                      wt, wc, wp, uf)
    IN  [cache |-> r.cache, fetched |-> r.fetched, asked |-> r.asked,
         d |-> IF r.out.ok THEN Returned(json_dumps(r.out.value))
               ELSE IF name = "get_posts_by_name" /\ r.out.type = "ValueError"
               THEN Returned("Error: " \o r.out.msg)
               ELSE r.out]

\* the arguments a caller gives to the tool
Arguments(name) ==
    {base @@ opt :
        base \in IF name = "get_posts" THEN {[channel_id |-> "c1"]}
                 ELSE {[team_name |-> "eng", channel_name |-> "general"]},
        opt \in OptionalArguments}

\* how the wrapped fetches of the users go: every user is found, or the
\* remote is down
UserFetches ==
    {[id \in {"u1", "u2"} |->
        CHOOSE w \in with_retry(config, authenticated, ToolUserOutcomes(id)) :
            w.out.ok = up] : up \in BOOLEAN}

\* what a tool call observed: its arguments, the response to
\* get_posts_for_channel if it was asked, and the users fetched remotely
Observed(arguments, r, wp) ==
    [pc |-> "returned", kind |-> server.name, ids |-> r.fetched,
     ids_to_fetch |-> << >>, out |-> IF r.asked THEN Some(wp.out) ELSE None,
     arguments |-> arguments]

\* what the team list and the by-name lookup may give to the tools by name
ToolTeamsOutcomes ==
    { Returned(<< [id |-> "t1", name |-> "eng"] >>), Returned(<< >>),
      Raised("ConnectionError", "Network timeout") }
ToolChannelOutcomes ==
    { Returned([id |-> "c1", team_id |-> "t1", name |-> "general"]),
      Raised("ConnectionError", "Network timeout") }

\* the remote calls a tool does not reach
Unreached(D) == {CHOOSE w \in with_retry(config, authenticated, D) : TRUE}

\* the tool runs of one behaviour
MaxToolRuns == MaxBatches - 1

\* the branch of a posts tool in call_tool runs: it returns or raises
PostsToolCall ==
    /\ server.pc = "tool" /\ server.name \in PostsTools
    /\ trace.n < MaxToolRuns
    /\ \E arguments \in Arguments(server.name),
          wt \in IF server.name = "get_posts" THEN Unreached(ToolTeamsOutcomes)
                 ELSE with_retry(config, authenticated, ToolTeamsOutcomes),
          wc \in IF server.name = "get_posts" THEN Unreached(ToolChannelOutcomes)
                 ELSE with_retry(config, authenticated, ToolChannelOutcomes),
          wp \in with_retry(config, authenticated, ToolPostsOutcomes),
          uf \in UserFetches :
         LET r == posts_tool(cache, server.name, arguments, wt, wc, wp, uf)
         IN  /\ cache' = r.cache
             /\ server' = tool_called(server, r.d)
             /\ batch' = Observed(arguments, r, wp)
             /\ trace' = [trace EXCEPT !.n = @ + 1]
    /\ UNCHANGED <<now, last, ncalls, written, cleared, config, authenticated,
                   calls>>

----------------------------------------------------------------------------
(* server.py: the search tools                                             *)

\* the default of limit in call_tool
DefaultLimit == 50

\* the posts search_for_team_posts may return, in the order of its "posts"
\* dict: none, one, two of two authors in two channels, or one more than
\* the default limit, all of u1 in c1
SearchPost(k, user_id, channel_id) ==
    [id |-> k, user_id |-> user_id, channel_id |-> channel_id, message |-> "hello"]
ManyPosts ==
    [i \in 1..(DefaultLimit + 1) |-> SearchPost("p" \o ToString(i), "u1", "c1")]
SearchFetched ==
    { << >>,
      << SearchPost("p1", "u1", "c1") >>,
      << SearchPost("p1", "u1", "c1"), SearchPost("p2", "u2", "c2") >>,
      << SearchPost("p2", "u2", "c2"), SearchPost("p1", "u1", "c1") >>,
      ManyPosts }
SearchOutcomes == {Returned([posts |-> l]) : l \in SearchFetched} \cup ToolRemoteErrors
ToolChannelFetched(id) ==
    { Returned([id |-> id, name |-> "general", display_name |-> "General"]),
      Raised("ConnectionError", "Network timeout") }

\* search_posts, lines 388-391: set_post for every post found, in the order
\* of the list; the dict the loop leaves holds, under each id of the list,
\* the entry of the last post of that id
cache_found(c, posts) ==
    LET ids == {posts[i].id : i \in 1..Len(posts)}
        last_of(k) == CHOOSE i \in 1..Len(posts) :
                          /\ posts[i].id = k
                          /\ \A j \in (i + 1)..Len(posts) : posts[j].id # k
    IN  [c EXCEPT !.posts =
            [k \in (DOMAIN c.posts) \cup ids |->
                IF k \in ids THEN CacheEntry(posts[last_of(k)], c.ttl)
                ELSE c.posts[k]]]

\* the second loop of _batch_get_channels, lines 260-273, where cf[id] is how
\* the wrapped fetch of id goes
RECURSIVE fetch_channels(_, _, _, _)
fetch_channels(c, todo, cf, channels) ==
    IF todo = << >> THEN [cache |-> c, out |-> channels]
    ELSE LET channel_id == Head(todo)
             w == cf[channel_id].out
         IN  fetch_channels(
                 IF w.ok THEN set_channel(c, channel_id, w.value) ELSE c,
                 Tail(todo), cf,
                 Put(channels, channel_id,
                     IF w.ok THEN w.value ELSE channel_fallback(channel_id)))

\* _batch_get_channels(channel_ids), lines 239-275
batch_get_channels(c, channel_ids, cf) ==
    LET swept == IF channel_ids = << >> THEN c.channels
                 ELSE cleanup_expired(c.channels)
        p == partition(swept, channel_ids)
    IN  fetch_channels([c EXCEPT !.channels = swept], p.ids_to_fetch, cf, p.found)

\* search_posts_enriched, lines 418-439, for users without first and last
\* name
enriched_results(posts, users, channels) ==
    [i \in 1..Len(posts) |->
        LET post == posts[i]
            user == IF post.user_id \in DOMAIN users THEN users[post.user_id]
                    ELSE EmptyCache
            channel == IF post.channel_id \in DOMAIN channels
                       THEN channels[post.channel_id] ELSE EmptyCache
        IN  [id |-> post.id, user_id |-> post.user_id,
             username |-> IF "username" \in DOMAIN user THEN user.username
                          ELSE "unknown",
             user_display_name |-> IF "username" \in DOMAIN user
                                   THEN user.username ELSE "Unknown User",
             channel_id |-> post.channel_id,
             channel_name |-> IF "name" \in DOMAIN channel THEN channel.name
                              ELSE "unknown",
             channel_display_name |->
                 IF "display_name" \in DOMAIN channel THEN channel.display_name
                 ELSE "Unknown Channel",
             message |-> post.message]]

\* search_posts_enriched(team_id, terms), lines 395-441, where ws is how the
\* wrapped search_for_team_posts goes
client_search_posts_enriched(c, ws, uf, cf) ==
    IF ~ws.out.ok
    THEN [cache |-> c, out |-> ws.out, fetched |-> << >>, asked |-> TRUE]
    ELSE LET posts == ws.out.value.posts
             c1 == cache_found(c, posts)
             u == batch_get_users(
                      c1, ListOf({posts[i].user_id : i \in 1..Len(posts)}), uf)
             ch == batch_get_channels(
                      u.cache, ListOf({posts[i].channel_id : i \in 1..Len(posts)}), cf)
         IN  [cache |-> ch.cache,
              out |-> Returned(enriched_results(posts, u.out, ch.out)),
              fetched |-> u.fetched, asked |-> TRUE]

\* search_messages_by_team_name(team_name, query), lines 518-536
client_search_messages_by_team_name(c, team_name, wt, ws, uf, cf) ==
    LET t == client_get_team_by_name(c, team_name, wt)
    IN  IF ~t.out.ok
        THEN [cache |-> t.cache, out |-> t.out, fetched |-> << >>, asked |-> FALSE]
        ELSE IF "id" \notin DOMAIN t.out.value
        THEN [cache |-> t.cache, out |-> KeyError, fetched |-> << >>, asked |-> FALSE]
        ELSE client_search_posts_enriched(t.cache, ws, uf, cf)

\* the branches of the search tools returning all they found
search_tool_unlimited(c, name, arguments, wt, ws, uf, cf) ==
    LET r == IF name = "search_messages"
             THEN client_search_posts_enriched(c, ws, uf, cf)
             ELSE client_search_messages_by_team_name(
                      c, arguments.team_name, wt, ws, uf, cf)
    IN  [cache |-> r.cache, fetched |-> r.fetched, asked |-> r.asked,
         d |-> IF r.out.ok THEN Returned(json_dumps(r.out.value))
               ELSE IF name = "search_messages_by_team_name"
                       /\ r.out.type = "ValueError"
               THEN Returned("Error: " \o r.out.msg)
               ELSE r.out]

\* call_tool, lines 372-393: the branches of search_messages and
\* search_messages_by_team_name; d is what the branch returns as text or
\* raises
search_tool(c, name, arguments, wt, ws, uf, cf) ==
    LET limit == ArgGet(arguments, "limit", DefaultLimit)
        r == IF name = "search_messages"
             THEN client_search_posts_enriched(c, ws, uf, cf)
             ELSE client_search_messages_by_team_name(
                      c, arguments.team_name, wt, ws, uf, cf)
    IN  [cache |-> r.cache, fetched |-> r.fetched, asked |-> r.asked,
         d |-> IF r.out.ok THEN Returned(json_dumps(Take(r.out.value, limit)))
               ELSE IF name = "search_messages_by_team_name"
                       /\ r.out.type = "ValueError"
               THEN Returned("Error: " \o r.out.msg)
               ELSE r.out]

\* the arguments a caller gives to a search tool: limit or none
SearchArguments(name) ==
    {base @@ opt :
        base \in IF name = "search_messages"
                 THEN {[team_id |-> "t1", query |-> "hello"]}
                 ELSE {[team_name |-> "eng", query |-> "hello"]},
        opt \in {[k \in {} |-> 0]} \cup {("limit" :> n) : n \in Limits}}

\* how the wrapped fetches of the channels go: every channel is found, or
\* the remote is down
ChannelFetches ==
    {[id \in {"c1", "c2"} |->
        CHOOSE w \in with_retry(config, authenticated, ToolChannelFetched(id)) :
            w.out.ok = up] : up \in BOOLEAN}

\* the branch of a search tool in call_tool runs: it returns or raises
SearchToolCall ==
    /\ server.pc = "tool" /\ server.name \in SearchTools
    /\ trace.n < MaxToolRuns
    /\ \E arguments \in SearchArguments(server.name),
          wt \in IF server.name = "search_messages"
                 THEN Unreached(ToolTeamsOutcomes)
                 ELSE with_retry(config, authenticated, ToolTeamsOutcomes),
          ws \in with_retry(config, authenticated, SearchOutcomes),
          uf \in UserFetches, cf \in ChannelFetches :
         LET r == search_tool(cache, server.name, arguments, wt, ws, uf, cf)
         IN  /\ cache' = r.cache
             /\ server' = tool_called(server, r.d)
             /\ batch' = Observed(arguments, r, ws)
             /\ trace' = [trace EXCEPT !.n = @ + 1]
    /\ UNCHANGED <<now, last, ncalls, written, cleared, config, authenticated,
                   calls>>

TeamNames == {"eng", "ops"}
ChannelNames == {"general", "random"}

\* MattermostClient.__init__ with CacheManager(ttl=cache_ttl)
InitWith(cfgs, ttls) ==
    /\ now = 0
    /\ cache \in {CacheManager(t) : t \in ttls}
    /\ last = Op("init", "all", None, None)
    /\ ncalls = 0
    /\ written = NothingWritten
    /\ cleared = None
    /\ config \in cfgs
    /\ authenticated = FALSE
    /\ calls = [p \in Callers |-> Idle]
    /\ batch = NoBatch
    /\ trace = NoTrace
    /\ server = NoServer(TRUE)

Init == InitWith(Configs, 0..MaxTTL)

\* the cache alone, under one configuration
InitCache == InitWith({[token |-> "tok", login |-> "", password |-> ""]}, 0..MaxTTL)

NextCache ==
    \/ \E k \in UserIds : GetUser(k)
    \/ \E k \in UserIds, v \in UserRecords : SetUser(k, v)
    \/ \E k \in TeamIds : GetTeam(k)
    \/ \E k \in TeamIds, v \in TeamRecords : SetTeam(k, v)
    \/ \E n \in TeamNames : GetTeamByName(n)
    \/ \E k \in ChannelIds : GetChannel(k)
    \/ \E k \in ChannelIds, v \in ChannelRecords : SetChannel(k, v)
    \/ \E t \in TeamIds, n \in ChannelNames : GetChannelByName(t, n)
    \/ \E k \in PostIds : GetPost(k)
    \/ \E k \in PostIds, v \in PostRecords : SetPost(k, v)
    \/ Clear
    \/ GetStats
    \/ Tick

SpecCache == InitCache /\ [][NextCache]_vars

\* the retry wrapper alone, one call at a time (the client is synchronous)
InitRetry == InitWith(Configs, {MaxTTL})

NoOtherCall(p) == \A q \in Callers \ {p} : calls[q].pc = "idle"

NextRetry ==
    \/ \E d \in LoginOutcomes : Connect(d)
    \/ \E p \in Callers, d \in FuncOutcomes : NoOtherCall(p) /\ Call(p, d)
    \/ \E p \in Callers, d \in LoginOutcomes : Reauthenticate(p, d)
    \/ \E p \in Callers, d \in FuncOutcomes : Retry(p, d)
    \/ \E p \in Callers : Finish(p)

SpecRetry == InitRetry /\ [][NextRetry]_vars

\* two threads calling wrapped methods of one client: the wrapper takes no
\* lock, so the remote invocations of the two calls interleave freely
InitRace == InitWith({c \in Configs : has_password_auth(c)}, {MaxTTL})

NextRace ==
    \/ \E p \in Callers, d \in FuncOutcomes : Call(p, d)
    \/ \E p \in Callers, d \in LoginOutcomes : Reauthenticate(p, d)
    \/ \E p \in Callers, d \in FuncOutcomes : Retry(p, d)
    \/ \E p \in Callers : Finish(p)

SpecRace == InitRace /\ [][NextRace]_vars

\* the batch resolvers of a client that logs in with a password, the mode
\* in which the wrapper reauthenticates; entries expire before the clock stops
InitBatch ==
    InitWith({[token |-> "", login |-> "bot", password |-> "pw"]}, {MaxTTL - 1})

NextBatch ==
    \/ \E ids \in Lists(BatchUserIds, MaxIds) : BatchGetUsers(ids)
    \/ \E ids \in Lists(BatchChannelIds, MaxIds) : BatchGetChannels(ids)
    \/ FetchUser
    \/ FetchChannel
    \/ BatchReturn
    \/ Tick

SpecBatch == InitBatch /\ [][NextBatch]_vars

\* team name resolution of a connected client
InitResolve == InitBatch

NextResolve ==
    \/ \E n \in AskedTeamNames : ClientGetTeamByName(n)
    \/ ClientGetTeams
    \/ \E t \in TeamIds, n \in AskedChannelNames : ClientGetChannelByName(t, n)
    \/ ClientLookupChannel
    \/ Tick

SpecResolve == InitResolve /\ [][NextResolve]_vars

InitByName == InitBatch

NextByName ==
    \/ \E k \in ByNameKinds, t \in ByNameTeams, n \in ByNameChannels :
          ByChannelName(k, t, n)
    \/ ResolveTeam
    \/ ResolveChannel
    \/ \E m \in Messages : CreatePost(m)
    \/ GetPosts
    \/ EnrichPosts
    \/ Tick

SpecByName == InitByName /\ [][NextByName]_vars

InitServer ==
    /\ now = 0
    /\ cache = CacheManager(MaxTTL)
    /\ last = Op("init", "all", None, None)
    /\ ncalls = 0
    /\ written = NothingWritten
    /\ cleared = None
    /\ config = [token |-> "tok", login |-> "", password |-> ""]
    /\ authenticated = FALSE
    /\ calls = [p \in Callers |-> Idle]
    /\ batch = NoBatch
    /\ trace = NoTrace
    /\ server \in {NoServer(TRUE), NoServer(FALSE)}

NextServer ==
    \/ GetClient
    \/ \E name \in ToolNames : CallTool(name)
    \/ ClientConnect
    \/ ToolCall
    \/ CleanupClient

SpecServer == InitServer /\ [][NextServer]_vars

\* a server whose client is connected, under token authentication
InitTools ==
    /\ now = 0
    /\ cache = CacheManager(MaxTTL - 1)
    /\ last = Op("init", "all", None, None)
    /\ ncalls = 0
    /\ written = NothingWritten
    /\ cleared = None
    /\ config = [token |-> "tok", login |-> "", password |-> ""]
    /\ authenticated = TRUE
    /\ calls = [p \in Callers |-> Idle]
    /\ batch = NoBatch
    /\ trace = NoTrace
    /\ server = [NoServer(TRUE) EXCEPT
                    !.client = Some([id |-> 1, connected |-> TRUE]),
                    !.constructed = 1, !.connects = 1]

NextTools ==
    \/ \E name \in PostsTools : CallTool(name)
    \/ PostsToolCall
    \/ Tick

SpecTools == InitTools /\ [][NextTools]_vars

\* the get_teams tool of a server whose client logs in with a password
InitReset ==
    /\ now = 0
    /\ cache = CacheManager(MaxTTL)
    /\ last = Op("init", "all", None, None)
    /\ ncalls = 0
    /\ written = NothingWritten
    /\ cleared = None
    /\ config \in {c \in Configs : has_password_auth(c)}
    /\ authenticated = TRUE
    /\ calls = [p \in Callers |-> Idle]
    /\ batch = NoBatch
    /\ trace = NoTrace
    /\ server = [NoServer(TRUE) EXCEPT
                    !.client = Some([id |-> 1, connected |-> TRUE]),
                    !.constructed = 1, !.connects = 1]

NextReset ==
    \/ CallTool("get_teams")
    \/ ClientConnectNew
    \/ GetTeamsToolCall

SpecReset == InitReset /\ [][NextReset]_vars

InitSearch == InitTools

NextSearch ==
    \/ \E name \in SearchTools : CallTool(name)
    \/ SearchToolCall

SpecSearch == InitSearch /\ [][NextSearch]_vars

Next == NextCache \/ NextRetry \/ NextBatch \/ NextResolve \/ NextByName \/ NextServer
            \/ NextTools \/ NextSearch \/ NextRace \/ NextReset

Spec == Init /\ [][Next]_vars

----------------------------------------------------------------------------
(* The cache store: claims about CacheManager, under SpecCache *)

\* the last operation was a get on a primary map
GotPrimary == last.op = "get" /\ last.map \in PrimaryMaps

\* the latest set of the key of the last operation, in its map
LastWritten == written[last.map][last.key]

HasWritten == last.key \in DOMAIN written[last.map]

\* the entries of dict d that have not expired at instant t
LiveAt(d, t) == {k \in DOMAIN d : ~(t > d[k].expires_at)}

\* C1: a get_X(k) issued before ttl time units have elapsed since the latest
\* set_X(k, v), with no clear() in between, returns v
C1_SetThenGetReturnsValue ==
    (GotPrimary /\ HasWritten /\ last.at - LastWritten.at < cache.ttl)
        => last.ret = Some(LastWritten.value)

\* a get answered from a set made earlier, some time after it
C1_Witness ==
    /\ GotPrimary /\ HasWritten
    /\ last.at > LastWritten.at
    /\ last.at - LastWritten.at < cache.ttl
    /\ last.ret = Some(LastWritten.value)

\* C2: a get_X(k) issued more than ttl after the latest set_X(k, v) returns
\* absent, and the get_stats() that follows it does not count k; a get that
\* returns a value returns one set at most ttl before
C2_GetAfterTtlIsAbsent ==
    /\ (GotPrimary /\ HasWritten /\ last.at - LastWritten.at > cache.ttl)
        => /\ last.ret = None
           /\ get_stats(cache)[last.map]
                = Cardinality(DOMAIN cache[last.map] \ {last.key})
    /\ (GotPrimary /\ last.ret # None)
        => /\ HasWritten
           /\ last.at - LastWritten.at <= cache.ttl
           /\ last.ret = Some(LastWritten.value)

\* a get of a key written more than ttl ago, answered absent, another key of
\* the map being still counted
C2_Witness ==
    /\ GotPrimary /\ HasWritten
    /\ last.at - LastWritten.at > cache.ttl
    /\ last.ret = None
    /\ get_stats(cache)[last.map] = 1

\* C3: each count get_stats() returns is the number of entries of that map
\* that have not expired at the moment of the call
C3_StatsCountLiveEntries ==
    last.op = "get_stats" =>
        \A m \in PrimaryMaps :
            last.ret[1][m] = Cardinality(LiveAt(cache[m], last.at))

\* C4: right after a get or a set on a map, that map holds no entry whose
\* expiry has passed
C4_GetAndSetSweep ==
    last.op \in {"get", "set"} =>
        LiveAt(cache[last.map], last.at) = DOMAIN cache[last.map]

\* C5: after set_X(k, v1) then set_X(k, v2) the map holds one entry for k,
\* with value v2 and an expiry counted from the second set
C5_SecondSetReplaces ==
    (last.op = "set" /\ LastWritten.prev # None) =>
        /\ last.key \in DOMAIN cache[last.map]
        /\ cache[last.map][last.key]
             = [value |-> LastWritten.value, expires_at |-> last.at + cache.ttl]
        /\ get_stats(cache)[last.map] <= Cardinality(DOMAIN written[last.map])

\* a key set to one value and later to another
C5_Witness ==
    /\ last.op = "set"
    /\ LastWritten.prev # None
    /\ LastWritten.prev[1].value # LastWritten.value
    /\ LastWritten.prev[1].at < LastWritten.at
    /\ cache[last.map][last.key].expires_at
         > LastWritten.prev[1].at + cache.ttl

\* a cache operation is issued in this step
Issued == ncalls' = ncalls + 1

\* the name index d2 is d1 with the entry of `key` set to `entry`
WrittenUnder(d1, d2, key, entry) ==
    /\ DOMAIN d2 = DOMAIN d1 \cup {key}
    /\ d2[key] = entry
    /\ \A k \in DOMAIN d1 \ {key} : d2[k] = d1[k]

\* C6: set_team writes the name index under v.name, with the value and the
\* expiry of the primary entry, exactly when v has a name; set_channel writes
\* under (v.team_id, v.name) exactly when v has both; otherwise only the
\* primary entry is written
C6_NameIndexWrittenWithPrimary ==
    [][ (Issued /\ last'.op = "set" /\ last'.map \in {"teams", "channels"}) =>
          LET v == written'[last'.map][last'.key].value
              primary == cache'[last'.map][last'.key]
          IN  /\ primary = [value |-> v, expires_at |-> now + cache.ttl]
              /\ IF last'.map = "teams"
                 THEN /\ cache'.channel_names = cache.channel_names
                      /\ IF "name" \in DOMAIN v
                         THEN WrittenUnder(cache.team_names, cache'.team_names,
                                           v.name, primary)
                         ELSE cache'.team_names = cache.team_names
                 ELSE /\ cache'.team_names = cache.team_names
                      /\ IF "team_id" \in DOMAIN v /\ "name" \in DOMAIN v
                         THEN WrittenUnder(cache.channel_names, cache'.channel_names,
                                           <<v.team_id, v.name>>, primary)
                         ELSE cache'.channel_names = cache.channel_names
       ]_vars

\* a channel without a team_id was set, after a team with a name: the team
\* is indexed by its name and the channel is not indexed
C6_Witness ==
    /\ last.op = "set" /\ last.map = "channels"
    /\ "team_id" \notin DOMAIN LastWritten.value
    /\ "name" \in DOMAIN LastWritten.value
    /\ DOMAIN cache.channel_names = {}
    /\ "t1" \in DOMAIN cache.teams
    /\ "eng" \in DOMAIN cache.team_names
    /\ cache.team_names["eng"] = cache.teams["t1"]

\* C7: from clear() until the next set the six maps are empty, every count
\* of get_stats() is 0 and every get returns absent
C7_ClearEmptiesAllMaps ==
    cleared # None =>
        /\ \A m \in AllMaps : DOMAIN cache[m] = {}
        /\ \A m \in PrimaryMaps : get_stats(cache)[m] = 0
        /\ last.op = "get" => last.ret = None
        /\ last.op = "get_stats" => \A m \in PrimaryMaps : last.ret[1][m] = 0

\* a get by name after a clear() that dropped a primary and a name entry
C7_Witness ==
    /\ cleared # None
    /\ cleared[1] >= 2
    /\ last.op = "get"
    /\ last.map \in {"team_names", "channel_names"}

----------------------------------------------------------------------------
(* The retry wrapper: claims about _with_retry, under SpecRetry *)

\* the error messages of FuncOutcomes that hold one of the known phrases,
\* whatever the case of their letters, and those that hold none
AuthRelated == {"Session is invalid", "401 Unauthorized"}
NotAuthRelated == {"Network timeout", "Channel not found"}

PasswordConfigured == config.login # "" /\ config.password # ""
TokenOnly == config.token # "" /\ ~PasswordConfigured

Started(p) == calls[p].log # << >>
Finished(p) == calls[p].pc \in {"returned", "raised"}
\* what the first invocation of func did
First(p) == calls[p].log[1].did

\* the call of p invoked func once and raised what func raised
RaisedFirstUnchanged(p) ==
    /\ calls[p].pc = "raised"
    /\ calls[p].log = << Invoked("func", First(p)) >>
    /\ calls[p].out = Some(First(p))

\* C8: with password authentication, a call whose first invocation fails with
\* an auth-related message and in which nothing fails afterwards invokes
\* func, reauthenticates once, invokes func again and returns what the
\* second invocation returned
C8_AuthFailureThenSuccess ==
    \A p \in Callers :
        ( /\ PasswordConfigured
          /\ Finished(p)
          /\ ~First(p).ok /\ First(p).msg \in AuthRelated
          /\ \A i \in 2..Len(calls[p].log) : calls[p].log[i].did.ok )
        => /\ Len(calls[p].log) = 3
           /\ calls[p].log[2].ev = "authenticate"
           /\ calls[p].log[3].ev = "func"
           /\ calls[p].pc = "returned"
           /\ calls[p].out = Some(calls[p].log[3].did)

\* "Session is invalid", then a login, then func returning r2
C8_Witness ==
    \E p \in Callers :
        /\ config = [token |-> "", login |-> "bot", password |-> "pw"]
        /\ calls[p].pc = "returned"
        /\ calls[p].log =
             << Invoked("func", Raised("NoAccessTokenProvided", "Session is invalid")),
                Invoked("authenticate", Returned("session")),
                Invoked("func", Returned("r2")) >>
        /\ calls[p].out = Some(Returned("r2"))
        /\ authenticated

\* C9: a call whose first invocation fails with a message holding no auth
\* phrase invokes func once, does not reauthenticate and raises that error
C9_OtherErrorPropagates ==
    \A p \in Callers :
        (Started(p) /\ ~First(p).ok /\ First(p).msg \in NotAuthRelated)
            => RaisedFirstUnchanged(p)

\* "Network timeout" under password authentication
C9_Witness ==
    \E p \in Callers :
        /\ PasswordConfigured
        /\ Started(p)
        /\ First(p) = Raised("ConnectionError", "Network timeout")
        /\ RaisedFirstUnchanged(p)

\* C10: with token-only authentication, a call whose first invocation fails
\* with an auth-related message invokes func once, does not reauthenticate
\* and raises that error
C10_TokenOnlyNeverRetries ==
    \A p \in Callers :
        (TokenOnly /\ Started(p) /\ ~First(p).ok /\ First(p).msg \in AuthRelated)
            => RaisedFirstUnchanged(p)

\* "Session is invalid" under a token with no login and no password
C10_Witness ==
    \E p \in Callers :
        /\ config = [token |-> "tok", login |-> "", password |-> ""]
        /\ Started(p)
        /\ First(p) = Raised("NoAccessTokenProvided", "Session is invalid")
        /\ RaisedFirstUnchanged(p)

\* the number of invocations of `what` in a log
Count(log, what) == Cardinality({i \in 1..Len(log) : log[i].ev = what})

\* the first invocation of p's call failed with an auth-related message
FirstAuthFailure(p) ==
    Started(p) /\ ~First(p).ok /\ First(p).msg \in AuthRelated

\* C11: when the first invocation fails with an auth-related error, the
\* reauthentication is performed and the retried invocation fails too, the
\* wrapper raises one error whose message holds the message of the first
\* failure and the message of the retry failure
C11_RetryFailureCombinesErrors ==
    \A p \in Callers :
        ( /\ FirstAuthFailure(p)
          /\ Len(calls[p].log) = 3
          /\ ~calls[p].log[3].did.ok )
        => /\ calls[p].pc = "raised"
           /\ calls[p].out # None
           /\ ~calls[p].out[1].ok
           /\ Contains(calls[p].out[1].msg, First(p).msg)
           /\ Contains(calls[p].out[1].msg, calls[p].log[3].did.msg)

\* "Session is invalid", a login, then "Network timeout"
C11_Witness ==
    \E p \in Callers :
        /\ calls[p].log =
             << Invoked("func", Raised("NoAccessTokenProvided", "Session is invalid")),
                Invoked("authenticate", Returned("session")),
                Invoked("func", Raised("ConnectionError", "Network timeout")) >>
        /\ calls[p].pc = "raised"
        /\ calls[p].out = Some(Raised("Exception",
             "Session expired and re-authentication failed. "
             \o "Original error: Session is invalid. "
             \o "Retry error: Network timeout"))

\* C12, as stated: with password authentication, a finished call whose first
\* invocation failed with an auth-related error has reauthenticated once and
\* invoked func twice
C12_AlwaysTwoInvocations ==
    \A p \in Callers :
        (PasswordConfigured /\ Finished(p) /\ FirstAuthFailure(p))
            => /\ Count(calls[p].log, "authenticate") = 1
               /\ Count(calls[p].log, "func") = 2

\* C12, amended: such a call has reauthenticated once, after the first
\* invocation; it has invoked func once more, after that, when the
\* reauthentication succeeded, and not again when it failed
C12_OneReauthThenOneRetryIfItSucceeds ==
    \A p \in Callers :
        (PasswordConfigured /\ Finished(p) /\ FirstAuthFailure(p))
            => /\ Count(calls[p].log, "authenticate") = 1
               /\ calls[p].log[2].ev = "authenticate"
               /\ IF authenticate(config, calls[p].log[2].did).ok
                  THEN /\ Len(calls[p].log) = 3
                       /\ calls[p].log[3].ev = "func"
                  ELSE /\ Len(calls[p].log) = 2
                       /\ calls[p].pc = "raised"

\* a call that ended when its reauthentication failed
C12_Witness ==
    \E p \in Callers :
        /\ PasswordConfigured /\ Finished(p) /\ FirstAuthFailure(p)
        /\ Len(calls[p].log) = 2
        /\ ~calls[p].log[2].did.ok
        /\ ~authenticated

\* C13: a call through the wrapper invokes func at most twice and
\* reauthenticates at most once, whatever func and the login do
C13_AtMostTwoInvocationsOneReauth ==
    \A p \in Callers :
        /\ Count(calls[p].log, "func") <= 2
        /\ Count(calls[p].log, "authenticate") <= 1

\* a call whose two invocations both failed with an auth-related error
C13_Witness ==
    \E p \in Callers :
        /\ calls[p].pc = "raised"
        /\ Count(calls[p].log, "func") = 2
        /\ Count(calls[p].log, "authenticate") = 1
        /\ calls[p].log[3].did = Raised("NoAccessTokenProvided", "401 Unauthorized")

----------------------------------------------------------------------------
(* The batch resolvers *)

\* the dict of the cache a batch of this kind reads and writes
DictOf(c) == IF batch.kind = "users" THEN c.users ELSE c.channels

\* the wrapped remote fetches made for id by the batch call, as positions
FetchesOf(id) == {i \in 1..Len(trace.fetches) : trace.fetches[i].id = id}

\* the ids that were live in the cache when the batch was called
LiveAtCall == Elems(batch.ids) \cap LiveAt(DictOf(trace.before), trace.start)

InBatch(kind) == batch.kind = kind /\ batch.pc \in {"fetching", "returned"}

\* C14: in _batch_get_users, an id of the list that was not live in the cache
\* when the batch was called is fetched from the remote at most once by that
\* call, however often it is in the list and whether the fetch fails or not
C14_UsersFetchedAtMostOnce ==
    InBatch("users") =>
        \A id \in Elems(batch.ids) \ LiveAtCall :
            Cardinality(FetchesOf(id)) <= 1

\* C15: in _batch_get_channels, an id of the list that was not live in the
\* cache when the batch was called is fetched from the remote at most once
\* by that call, however often it is in the list
C15_ChannelsFetchedAtMostOnce ==
    InBatch("channels") =>
        \A id \in Elems(batch.ids) \ LiveAtCall :
            Cardinality(FetchesOf(id)) <= 1

\* C16: in a batch call of either kind, an id that was live in the cache
\* when the batch was called is mapped to the record the cache held, and no
\* remote fetch is made for it
C16_CachedIdsAreNotFetched ==
    (InBatch("users") \/ InBatch("channels")) =>
        \A id \in LiveAtCall :
            /\ id \in DOMAIN batch.out
            /\ batch.out[id] = DictOf(trace.before)[id].value
            /\ FetchesOf(id) = {}

\* a second batch that found one id in the cache and fetched another
C16_Witness ==
    /\ batch.pc = "returned"
    /\ trace.n = 2
    /\ LiveAtCall # {}
    /\ trace.fetches # << >>
    /\ \E id \in LiveAtCall : batch.out[id] = DictOf(trace.before)[id].value

\* the fallback record of an id: its id field is the id, its label the
\* prefix of the kind followed by the first 8 characters of the id
IsFallback(id, rec) ==
    /\ "id" \in DOMAIN rec
    /\ rec.id = id
    /\ IF batch.kind = "users"
       THEN "username" \in DOMAIN rec
            /\ rec.username = "user_" \o SubSeq(id, 1, IF Len(id) < 8 THEN Len(id) ELSE 8)
       ELSE "display_name" \in DOMAIN rec
            /\ rec.name = "channel_" \o SubSeq(id, 1, IF Len(id) < 8 THEN Len(id) ELSE 8)

\* the remote fetches for id that failed, and those that gave a record
FailedFetches(id) == {i \in FetchesOf(id) : ~trace.fetches[i].ok}
GoodFetches(id) == {i \in FetchesOf(id) : trace.fetches[i].ok}

\* C17: a batch call returns a dict that maps every id of the list to a
\* record, and an id for which a remote fetch failed to its fallback record
C17_FailedIdsMapToFallback ==
    batch.pc = "returned" =>
        /\ DOMAIN batch.out = Elems(batch.ids)
        /\ \A id \in Elems(batch.ids) :
               FailedFetches(id) # {} => IsFallback(id, batch.out[id])

\* C18: when a batch call has returned and a remote fetch for id i failed in
\* it, the cache holds an entry for i only if it held it when the batch was
\* called
C18_FailedIdsGainNoEntry ==
    batch.pc = "returned" =>
        \A id \in Elems(batch.ids) :
            (FailedFetches(id) # {} /\ id \in DOMAIN DictOf(cache))
                => /\ id \in DOMAIN DictOf(trace.before)
                   /\ DictOf(cache)[id] = DictOf(trace.before)[id]

\* the instant a batch call returns
JustReturned == batch.pc = "returned" /\ now = trace.end

Cacheable(id) ==
    {i \in GoodFetches(id) :
        \/ batch.kind = "channels"
        \/ /\ "id" \in DOMAIN trace.fetches[i].value[1]
           /\ trace.fetches[i].value[1].id = id}

Latest(S) == CHOOSE i \in S : \A j \in S : j <= i

----------------------------------------------------------------------------
(* Team name resolution *)

\* get_team_by_name missed the name index, fetched a list holding a team
\* with the name, and has just returned
ResolvedFromList ==
    /\ batch.kind = "team_by_name"
    /\ now = trace.end
    /\ Len(trace.fetches) = 1
    /\ trace.fetches[1].ok
    /\ \E i \in 1..Len(trace.fetches[1].value[1]) :
           LET t == trace.fetches[1].value[1][i]
           IN  "name" \in DOMAIN t /\ t.name = batch.ids[1]

TheList == trace.fetches[1].value[1]

\* the position of the first team of the list with the asked name
FirstNamed ==
    CHOOSE i \in 1..Len(TheList) :
        /\ "name" \in DOMAIN TheList[i] /\ TheList[i].name = batch.ids[1]
        /\ \A j \in 1..(i - 1) :
               ~("name" \in DOMAIN TheList[j] /\ TheList[j].name = batch.ids[1])

\* t is in the cache under its id and under its name
CachedByIdAndName(t) ==
    /\ "id" \in DOMAIN t
    /\ Lookup(cache.teams, t.id) = Some(t)
    /\ Lookup(cache.team_names, t.name) = Some(t)

\* C20, as stated: when get_team_by_name misses the name index and the
\* fetched list holds a team with the name, it returns that record, and the
\* record is then in the cache under its id and under its name
C20_ResolvedTeamIsCached ==
    ResolvedFromList =>
        /\ batch.pc = "returned"
        /\ batch.out = Returned(TheList[FirstNamed])
        /\ CachedByIdAndName(TheList[FirstNamed])

\* no team later in the list has the id or the name of the team at i
NotOverwritten(i) ==
    \A j \in (i + 1)..Len(TheList) :
        /\ ~("id" \in DOMAIN TheList[j] /\ TheList[j].id = TheList[i].id)
        /\ ~("name" \in DOMAIN TheList[j] /\ "id" \in DOMAIN TheList[j]
             /\ TheList[j].name = TheList[i].name)

\* C20, amended: it returns the first team of the list with the name; that
\* record is then in the cache under its id and under its name if it has an
\* id and no later team of the list has the same id or the same name
C20_ResolvedTeamIsCachedIfItHasAnId ==
    ResolvedFromList =>
        /\ batch.pc = "returned"
        /\ batch.out = Returned(TheList[FirstNamed])
        /\ ("id" \in DOMAIN TheList[FirstNamed] /\ NotOverwritten(FirstNamed))
               => CachedByIdAndName(TheList[FirstNamed])

\* "eng" resolved from the list [ops, eng]
C20_Witness ==
    /\ ResolvedFromList
    /\ batch.ids = << "eng" >>
    /\ TheList = << [id |-> "t2", name |-> "ops"], [id |-> "t1", name |-> "eng"] >>
    /\ batch.out = Returned([id |-> "t1", name |-> "eng"])
    /\ CachedByIdAndName([id |-> "t1", name |-> "eng"])
    /\ Lookup(trace.before.team_names, "eng") = None

\* get_team_by_name missed the name index and fetched a list in which no
\* team has the asked name
ListWithoutTheName ==
    /\ batch.kind = "team_by_name"
    /\ Len(trace.fetches) = 1
    /\ trace.fetches[1].ok
    /\ \A i \in 1..Len(TheList) :
           ~("name" \in DOMAIN TheList[i] /\ TheList[i].name = batch.ids[1])

\* C21: when get_team_by_name misses the name index and no team of the
\* fetched list has exactly the asked name, it raises ValueError with a
\* message that carries the name
C21_UnknownTeamRaisesNotFound ==
    ListWithoutTheName =>
        /\ batch.pc = "raised"
        /\ batch.out = Raised("ValueError",
                              "Team '" \o batch.ids[1] \o "' not found")

\* "ops" asked when the list holds only a team named "eng"
C21_Witness ==
    /\ ListWithoutTheName
    /\ batch.ids = << "ops" >>
    /\ TheList = << [id |-> "t1", name |-> "eng"] >>
    /\ batch.out = Raised("ValueError", "Team 'ops' not found")

\* get_team_by_name was called with a name that was live in the name index
TeamNameWasLive ==
    /\ batch.kind = "team_by_name"
    /\ batch.ids[1] \in LiveAt(trace.before.team_names, trace.start)

\* get_team_by_name missed the name index, fetched the list and returned a
\* team, the fetch being no more than ttl ago: the state in which a second
\* resolution within the ttl is called (the client is synchronous)
ResolvedWithinTtl ==
    /\ batch.kind = "team_by_name"
    /\ batch.pc = "returned"
    /\ Len(trace.fetches) = 1
    /\ now <= trace.fetches[1].at + cache.ttl

\* the asked name is live in the name index now
TeamNameIsLive == batch.ids[1] \in LiveAt(cache.team_names, now)

\* C22, as stated: a name live in the name index when get_team_by_name is
\* called is resolved to the cached record with no remote call; and after a
\* resolution that fetched the list and returned a team, the name is live in
\* the index for ttl, so that a second resolution within the ttl is such a
\* call and the two fetch the list once
C22_SecondResolutionFetchesNothing ==
    /\ TeamNameWasLive =>
           /\ batch.pc = "returned"
           /\ batch.out = Returned(trace.before.team_names[batch.ids[1]].value)
           /\ trace.fetches = << >>
    /\ ResolvedWithinTtl => TeamNameIsLive

\* C22, amended: the same, the name being live in the index after the first
\* resolution if the team it returned has an "id"
C22_LiveNameFetchesNothing ==
    /\ TeamNameWasLive =>
           /\ batch.pc = "returned"
           /\ batch.out = Returned(trace.before.team_names[batch.ids[1]].value)
           /\ trace.fetches = << >>
    /\ (ResolvedWithinTtl /\ "id" \in DOMAIN batch.out.value) => TeamNameIsLive

\* "eng" resolved a second time from the index, one tick after the first
\* resolution cached it
C22_Witness ==
    /\ TeamNameWasLive
    /\ trace.n = 2
    /\ batch.ids = << "eng" >>
    /\ batch.pc = "returned"
    /\ trace.fetches = << >>
    /\ trace.before.team_names["eng"].expires_at = 0 + cache.ttl
    /\ trace.start = 1

----------------------------------------------------------------------------
(* Claims: channel name resolution                                         *)

AskedChannel == << batch.ids[1], batch.ids[2] >>
ChannelNameWasLive ==
    /\ batch.kind = "channel_by_name"
    /\ AskedChannel \in LiveAt(trace.before.channel_names, trace.start)
ChannelNameWasMissing ==
    /\ batch.kind = "channel_by_name"
    /\ batch.pc \in {"returned", "raised"}
    /\ AskedChannel \notin LiveAt(trace.before.channel_names, trace.start)
\* the by-name lookup was issued, once, through the wrapper
LookedUpRemotely ==
    /\ Len(trace.fetches) = 1
    /\ trace.fetches[1].id = "channel_by_name"
    /\ trace.fetches[1].invoked \in {1, 2}
LookedUpWithinTtl ==
    /\ batch.kind = "channel_by_name" /\ batch.pc = "returned"
    /\ Len(trace.fetches) = 1
    /\ now <= trace.fetches[1].at + cache.ttl
\* the asked name is live in the index and leads to the record returned
ChannelNameIsLive ==
    /\ AskedChannel \in LiveAt(cache.channel_names, now)
    /\ cache.channel_names[AskedChannel].value = batch.out.value
ServedFromIndex ==
    /\ batch.pc = "returned"
    /\ batch.out = Returned(trace.before.channel_names[AskedChannel].value)
    /\ trace.fetches = << >>

\* C23 as stated: a miss of the (team_id, name) index issues the by-name
\* lookup through the wrapper, every successful lookup leaves the asked name
\* live in the index for ttl, and a live name is served from the index with
\* no remote call.  Violated: a record without "id", without "team_id" or
\* of another team is returned and the asked name stays out of the index.
C23_SecondLookupIsServedFromCache ==
    /\ ChannelNameWasMissing => LookedUpRemotely
    /\ LookedUpWithinTtl => ChannelNameIsLive
    /\ ChannelNameWasLive => ServedFromIndex

\* the record fetched has an "id" and the team_id and name asked for
FetchedUnderAskedName ==
    LET r == batch.out.value
    IN  /\ {"id", "team_id", "name"} \subseteq DOMAIN r
        /\ r.team_id = batch.ids[1] /\ r.name = batch.ids[2]

\* C23 (amended): a miss of the (team_id, name) index issues the by-name
\* lookup through the wrapper; when the record it returns has an "id" and
\* the team_id and name asked for, the asked name is live in the index for
\* ttl; and a live name is served from the index with no remote call
C23_SecondLookupIsServedIfIndexed ==
    /\ ChannelNameWasMissing => LookedUpRemotely
    /\ (LookedUpWithinTtl /\ FetchedUnderAskedName) => ChannelNameIsLive
    /\ ChannelNameWasLive => ServedFromIndex

\* the second lookup of t1/general, one tick after the first one fetched it
C23_Witness ==
    /\ ChannelNameWasLive /\ ServedFromIndex
    /\ trace.n = 2 /\ trace.start = 1
    /\ batch.ids = << "t1", "general" >>
    /\ trace.before.channel_names[AskedChannel].expires_at = 0 + cache.ttl

\* the by-name lookup failed at its first invocation with a message that
\* holds none of the authentication phrases
LookupFailedNotAuth ==
    /\ batch.kind = "channel_by_name"
    /\ Len(trace.fetches) >= 1
    /\ ~trace.fetches[1].first.ok
    /\ trace.fetches[1].first.msg \in NotAuthRelated

\* the cache as the call found it, less the expired entries of the name
\* index, which the lookup of the index sweeps
SweptOnly ==
    LET d == trace.before.channel_names
    IN  cache = [trace.before EXCEPT !.channel_names =
                    [k \in LiveAt(d, trace.start) |-> d[k]]]

\* C24: when the first invocation of the by-name lookup fails with a
\* non-auth error, get_channel_by_name raises that very error, the lookup
\* was invoked once and nothing else was called, and the cache holds what it
\* held when the name index was looked up
C24_NotFoundPropagatesUnchanged ==
    LookupFailedNotAuth =>
        /\ batch.pc = "raised"
        /\ batch.out = trace.fetches[1].first
        /\ Len(trace.fetches) = 1 /\ trace.fetches[1].invoked = 1
        /\ SweptOnly

\* "Channel not found" for t1/random, under password authentication
C24_Witness ==
    /\ LookupFailedNotAuth
    /\ batch.ids = << "t1", "random" >>
    /\ batch.out = Raised("ResourceNotFound", "Channel not found")
    /\ batch.pc = "raised"
    /\ has_password_auth(config)

----------------------------------------------------------------------------
(* Claims: the operations by team and channel name                         *)

ByName == batch.kind \in ByNameKinds
\* the positions of the log at which the remote call `what` was issued
CallsOf(what) == {i \in 1..Len(trace.fetches) : trace.fetches[i].id = what}
TeamCalls == CallsOf("get_user_teams")
ChannelCalls == CallsOf("get_channel_by_name")
PostCalls == CallsOf("create_post") \cup CallsOf("get_posts_for_channel")
\* the team, the channel have been resolved to a record with an id
TeamResolved == batch.team # None
ChannelResolved == batch.channel # None
\* the operation by name is over
Over == batch.pc \in {"returned", "raised"}

\* C25: in send_message_by_channel_name and get_posts_by_channel_name every
\* team fetch precedes every channel lookup, which precedes every post call;
\* a channel is looked up only once the team is resolved, in the team of the
\* id resolved and under the name asked; a post is created or fetched only
\* once the channel is resolved too, in the channel of the id resolved; by
\* then the operation is of the kind called, and a call that returns has
\* issued it
C25_TeamThenChannelThenOperation ==
    ByName =>
        /\ \A i \in TeamCalls, j \in ChannelCalls \cup PostCalls : i < j
        /\ \A i \in ChannelCalls, j \in PostCalls : i < j
        /\ ~TeamResolved => (ChannelCalls = {} /\ PostCalls = {} /\ ~ChannelResolved)
        /\ ~ChannelResolved => PostCalls = {}
        /\ \A i \in ChannelCalls :
               trace.fetches[i].args = << batch.team[1].id, batch.ids[2] >>
        /\ \A i \in PostCalls : trace.fetches[i].args[1] = batch.channel[1].id
        /\ CallsOf("create_post") # {}
               => batch.kind = "send_message_by_channel_name"
        /\ CallsOf("get_posts_for_channel") # {}
               => batch.kind = "get_posts_by_channel_name"
        /\ (Over /\ ~(TeamResolved /\ ChannelResolved)) => batch.pc = "raised"
        /\ batch.pc = "returned" => PostCalls # {}

\* a message sent to eng/general after one team fetch and one channel lookup
C25_Witness ==
    /\ batch.kind = "send_message_by_channel_name" /\ batch.pc = "returned"
    /\ batch.ids = << "eng", "general" >>
    /\ Len(trace.fetches) = 3
    /\ trace.fetches[1].id = "get_user_teams"
    /\ trace.fetches[2].id = "get_channel_by_name"
    /\ trace.fetches[2].args = << "t1", "general" >>
    /\ trace.fetches[3].id = "create_post"
    /\ trace.fetches[3].args = << "c-general", "hello" >>

\* posts asked of a team that is not in the list: nothing but the team fetch
C25_WitnessTeamFails ==
    /\ batch.kind = "get_posts_by_channel_name" /\ batch.pc = "raised"
    /\ batch.ids[1] = "nonexistent"
    /\ Len(trace.fetches) = 1
    /\ trace.fetches[1].id = "get_user_teams"

----------------------------------------------------------------------------
(* Claims: the global client of the server                                 *)

\* a handler has run and is over
ServerIdle == server.pc = "idle" /\ server.op # "none"
\* the globals and the counts as the handler found them
AtEntry == server.entry[1]
\* get_client has been called, by itself or by call_tool
GetsClient == server.op \in {"get_client", "call_tool"}
StartsWith(str, prefix) ==
    Len(str) >= Len(prefix) /\ SubSeq(str, 1, Len(prefix)) = prefix
\* the messages of ToolMessages that hold an indicator of call_tool, and
\* messages that hold none and no "401"
ServerAuthMessages ==
    {"Session is invalid or expired", "401 Unauthorized", "Session expired",
     "Status 401"}
ServerNotAuthMessages == {"Network timeout", "Unknown tool: no_such_tool"}
ToolRaised(msgs) ==
    /\ ServerIdle /\ server.op = "call_tool"
    /\ server.did.tool # None
    /\ ~server.did.tool[1].ok /\ server.did.tool[1].msg \in msgs

\* C26: a get_client that finds a client installed returns that client and
\* neither constructs nor connects one; and a handler that finds a client
\* installed leaves another value in the global only if it is cleanup_client
\* or a call_tool whose tool raised an authentication error
C26_ClientIsReusedUntilReset ==
    (ServerIdle /\ AtEntry.client # None) =>
        /\ GetsClient =>
              /\ server.did.got = Some(Returned(AtEntry.client[1]))
              /\ server.constructed = AtEntry.constructed
              /\ server.connects = AtEntry.connects
        /\ server.op = "get_client" => server.out = Returned(AtEntry.client[1])
        /\ server.client # AtEntry.client =>
              \/ server.op = "cleanup_client"
              \/ ToolRaised(ServerAuthMessages)

\* the third get_client returns the client the first one made
C26_Witness ==
    /\ ServerIdle /\ server.op = "get_client" /\ server.n = 3
    /\ AtEntry.client = Some([id |-> 1, connected |-> TRUE])
    /\ server.out = Returned([id |-> 1, connected |-> TRUE])
    /\ server.client = AtEntry.client
    /\ server.constructed = 1 /\ server.connects = 1

ConnectFailed == server.did.conn # None /\ ~server.did.conn[1].ok

\* C27: when connect fails, get_client raises RuntimeError "Failed to
\* connect..." and the global is None; a get_client that finds the global
\* None (and a configuration) constructs a client, which is a new one, and
\* connects it; and once get_client has returned or raised the global is None
\* or a client whose connect succeeded
C27_FailedConnectResetsClient ==
    /\ (ServerIdle /\ ConnectFailed) =>
          /\ server.did.got # None /\ ~server.did.got[1].ok
          /\ server.did.got[1].type = "RuntimeError"
          /\ StartsWith(server.did.got[1].msg, "Failed to connect")
          /\ server.op = "get_client" => server.out = server.did.got[1]
          /\ server.client = None
    /\ (GetsClient /\ AtEntry.client = None /\ server.config) =>
          /\ server.constructed = AtEntry.constructed + 1
          /\ server.did.ctor # None
          /\ (server.did.ctor[1].ok /\ server.pc # "connecting")
                => server.connects = AtEntry.connects + 1
          /\ (server.client # None /\ server.pc # "connecting")
                => /\ server.client[1].id = server.constructed
                   /\ server.did.got = Some(Returned(server.client[1]))
    /\ server.pc # "connecting" =>
          (server.client = None \/ server.client[1].connected)

\* connect fails in two get_client in a row: two clients were made
C27_Witness ==
    /\ ServerIdle /\ server.op = "get_client" /\ server.n = 2
    /\ ConnectFailed
    /\ AtEntry = [client |-> None, constructed |-> 1, connects |-> 1,
                  disconnects |-> 0]
    /\ server.out = Raised("RuntimeError",
                           "Failed to connect to Mattermost: Connection failed")
    /\ server.client = None /\ server.constructed = 2 /\ server.connects = 2

\* C28: when the tool raises an error whose message holds an indicator,
\* call_tool returns an "Authentication error" text and the global is None;
\* and a call_tool that finds the global None constructs a client and
\* connects it, and the tool runs on that client
C28_AuthErrorResetsClient ==
    /\ ToolRaised(ServerAuthMessages) =>
          /\ server.out.ok
          /\ server.out.value = Text(
                 "Authentication error (will retry on next request): "
                     \o server.did.tool[1].msg)
          /\ server.client = None
    /\ (server.op = "call_tool" /\ AtEntry.client = None /\ server.config) =>
          /\ server.constructed = AtEntry.constructed + 1
          /\ server.did.tool # None =>
                /\ server.connects = AtEntry.connects + 1
                /\ server.did.got = Some(Returned([id |-> server.constructed,
                                                   connected |-> TRUE]))

\* "Session expired" in a first call_tool, then a second call_tool that makes
\* a second client and returns the teams
C28_Witness ==
    /\ ServerIdle /\ server.op = "call_tool" /\ server.n = 2
    /\ AtEntry = [client |-> None, constructed |-> 1, connects |-> 1,
                  disconnects |-> 0]
    /\ server.did.tool = Some(Returned("[]"))
    /\ server.client = Some([id |-> 2, connected |-> TRUE])

\* the first call_tool of C28_Witness
C28_WitnessReset ==
    /\ ToolRaised({"Session expired"}) /\ server.n = 1
    /\ server.client = None /\ server.constructed = 1

\* `"Authentication error" not in text`
NotAnAuthenticationError(text) == ~Contains(text, "Authentication error")

\* C29: when the tool raises an error whose message holds no indicator,
\* call_tool returns "Error: " and the message, which is not an
\* "Authentication error", and the global is the client the tool ran on:
\* the one that was installed, if one was
C29_OtherErrorKeepsClient ==
    ToolRaised(ServerNotAuthMessages) =>
        /\ server.out.ok
        /\ server.out.value = Text("Error: " \o server.did.tool[1].msg)
        /\ NotAnAuthenticationError(server.out.value[1].text)
        /\ server.client # None
        /\ server.did.got = Some(Returned(server.client[1]))
        /\ AtEntry.client # None => server.client = AtEntry.client

\* "Network timeout" in a second call_tool: the client of the first remains
C29_Witness ==
    /\ ToolRaised({"Network timeout"}) /\ server.n = 2
    /\ AtEntry.client = Some([id |-> 1, connected |-> TRUE])
    /\ server.client = AtEntry.client
    /\ server.out = Returned(Text("Error: Network timeout"))

\* C30: cleanup_client returns (it does not raise) and leaves the global
\* None; if it found a client it called disconnect once, whether disconnect
\* returned or raised, and otherwise it called nothing; it constructs and
\* connects nothing
C30_CleanupNeverRaises ==
    (ServerIdle /\ server.op = "cleanup_client") =>
        /\ server.out = Returned(None)
        /\ server.client = None
        /\ AtEntry.client # None =>
              /\ server.did.disc # None
              /\ server.disconnects = AtEntry.disconnects + 1
        /\ AtEntry.client = None =>
              /\ server.did.disc = None
              /\ server.disconnects = AtEntry.disconnects
        /\ server.constructed = AtEntry.constructed
        /\ server.connects = AtEntry.connects

\* disconnect raises "Disconnect failed" and the client is reset all the same
C30_Witness ==
    /\ ServerIdle /\ server.op = "cleanup_client"
    /\ AtEntry.client = Some([id |-> 1, connected |-> TRUE])
    /\ server.did.disc = Some(Raised("Exception", "Disconnect failed"))
    /\ server.out = Returned(None)
    /\ server.client = None /\ server.disconnects = 1

\* C31: a call_tool with a name that is no tool raises ValueError "Unknown
\* tool: <name>" once it has its client
C31_UnknownToolRaisesValueError ==
    (ServerIdle /\ server.op = "call_tool" /\ server.name \notin KnownTools
        /\ server.did.got # None /\ server.did.got[1].ok)
        => server.out = Raised("ValueError", "Unknown tool: " \o server.name)

\* C38: when the client call of a tool raises an error that the client's
\* _is_auth_error takes for an authentication error, call_tool takes it for
\* one too: it resets the global client and answers "Authentication error"
C38_WrapperAuthErrorsResetClient ==
    \A m \in ToolMessages :
        (ToolRaised({m}) /\ is_auth_error(Raised("Exception", m)))
            => /\ server.client = None
               /\ server.out = Returned(Text(
                     "Authentication error (will retry on next request): " \o m))

----------------------------------------------------------------------------
(* Claims: the posts tools                                                 *)

\* a posts tool got the posts of the channel and has returned
PostsToolReturned ==
    /\ batch.kind \in PostsTools /\ batch.pc = "returned"
    /\ server.pc = "idle"
    /\ batch.out # None /\ batch.out[1].ok
\* the posts in the text returned, the order of the response, the users
\* fetched from the remote
PostsReturned == server.out.value[1].text.json
ResponseOrder == batch.out[1].value.order
UsersFetched == Elems(batch.ids)
Min(a, b) == IF a < b THEN a ELSE b
FirstOfOrder(n) ==
    /\ Len(PostsReturned) = Min(n, Len(ResponseOrder))
    /\ \A i \in 1..Len(PostsReturned) : PostsReturned[i].id = ResponseOrder[i]

\* C32: a posts tool called with limit = n returns the first min(n, number of
\* posts in the response) posts of the response order
C32_LimitBoundsPosts ==
    (PostsToolReturned /\ "limit" \in DOMAIN batch.arguments)
        => FirstOfOrder(batch.arguments.limit)

\* what the branches do read: per_page = n, 20 when omitted
C32_PerPageBoundsPosts ==
    PostsToolReturned
        => FirstOfOrder(ArgGet(batch.arguments, "per_page", DefaultPerPage))

\* C34: the users a posts tool fetches from the remote are authors of posts
\* it returns
C34_FetchesAuthorsOfWindowOnly ==
    PostsToolReturned =>
        UsersFetched \subseteq
            {PostsReturned[i].user_id : i \in 1..Len(PostsReturned)}

----------------------------------------------------------------------------
(* Claims: the search tools                                                *)

\* a search tool got the results of the search and has returned
SearchToolReturned ==
    /\ batch.kind \in SearchTools /\ batch.pc = "returned"
    /\ server.pc = "idle"
    /\ batch.out # None /\ batch.out[1].ok
\* the results in the text returned, and the posts the search found
ResultsReturned == server.out.value[1].text.json
PostsFound == batch.out[1].value.posts
\* the limit given, 50 when none is
LimitGiven ==
    IF "limit" \in DOMAIN batch.arguments THEN batch.arguments.limit ELSE 50
IsEnriched(result, post) ==
    /\ {"username", "user_display_name", "channel_name", "channel_display_name"}
           \subseteq DOMAIN result
    /\ result.id = post.id /\ result.message = post.message
    /\ result.user_id = post.user_id /\ result.channel_id = post.channel_id

\* C33: a search tool returns min(limit, number of posts found) results,
\* limit being 50 when it is omitted, and they are the first posts found,
\* enriched with the names of the user and of the channel
C33_LimitBoundsSearchResults ==
    SearchToolReturned =>
        /\ server.out.ok
        /\ Len(ResultsReturned) = Min(LimitGiven, Len(PostsFound))
        /\ \A i \in 1..Len(ResultsReturned) :
               IsEnriched(ResultsReturned[i], PostsFound[i])

\* 51 posts found and no limit given: 50 results
C33_Witness ==
    /\ SearchToolReturned
    /\ "limit" \notin DOMAIN batch.arguments
    /\ Len(PostsFound) = 51
    /\ Len(ResultsReturned) = 50
    /\ ResultsReturned[50].username = "alice"

----------------------------------------------------------------------------
(* Claims: the cache, again                                                *)

\* team id k was written under one name and then, by the latest set_team of
\* k, under another
Renamed(k) ==
    /\ k \in DOMAIN written.teams
    /\ written.teams[k].prev # None
    /\ "name" \in DOMAIN written.teams[k].prev[1].value
    /\ "name" \in DOMAIN written.teams[k].value
    /\ written.teams[k].prev[1].value.name # written.teams[k].value.name
OldWrite(k) == written.teams[k].prev[1]
OldName(k) == OldWrite(k).value.name
\* the entry set_team made under the old name
OldEntry(k) ==
    [value |-> OldWrite(k).value, expires_at |-> OldWrite(k).at + cache.ttl]

\* C35: once a team id has been re-written under another name, the entry
\* under the old name is the one the earlier set_team made, as long as no
\* getter has swept it after its expiry, and get_team_by_name(old name)
\* returns the old record up to its expiry and None after it
C35_OldNameEntrySurvivesRename ==
    \A k \in TeamIds : Renamed(k) =>
        /\ OldName(k) \in DOMAIN cache.team_names
              => cache.team_names[OldName(k)] = OldEntry(k)
        /\ now <= OldEntry(k).expires_at => OldName(k) \in DOMAIN cache.team_names
        /\ (last.op = "get" /\ last.map = "team_names" /\ last.key = OldName(k))
              => last.ret = IF last.at <= OldEntry(k).expires_at
                            THEN Some(OldWrite(k).value) ELSE None

\* t1 written as eng, then as ops, and get_team_by_name("eng") returns the
\* record named eng
C35_Witness ==
    /\ Renamed("t1")
    /\ written.teams["t1"].value = [id |-> "t1", name |-> "ops"]
    /\ last = [op |-> "get", map |-> "team_names", key |-> "eng",
               ret |-> Some([id |-> "t1", name |-> "eng"]), at |-> now]

\* C37: a get of a key written at instant s by the latest set, under ttl t,
\* returns the value at every instant up to and including s + t and absent
\* at every later instant; so with ttl 0 the get made at the instant of the
\* set returns the value
C37_ExpiryIsStrict ==
    (GotPrimary /\ HasWritten) =>
        /\ last.at <= LastWritten.at + cache.ttl
              => last.ret = Some(LastWritten.value)
        /\ last.ret = None <=> last.at > LastWritten.at + cache.ttl
        /\ (cache.ttl = 0 /\ last.at = LastWritten.at)
              => last.ret = Some(LastWritten.value)

\* a get made exactly ttl after the set, the ttl not being zero, returns the
\* value
C37_Witness ==
    /\ GotPrimary /\ HasWritten
    /\ cache.ttl > 0
    /\ last.at = LastWritten.at + cache.ttl
    /\ last.ret = Some(LastWritten.value)

\* with ttl 0, the get made at the instant of the set returns the value
C37_WitnessZeroTtl ==
    /\ GotPrimary /\ HasWritten
    /\ cache.ttl = 0
    /\ last.at = LastWritten.at
    /\ last.ret = Some(LastWritten.value)

----------------------------------------------------------------------------
(* Claims: the retry wrapper under interleaving                            *)

\* the first invocation of p's call failed with an authentication error
ObservedAuthFailure(p) ==
    /\ Len(calls[p].log) >= 1
    /\ calls[p].log[1].ev = "func"
    /\ ~calls[p].log[1].did.ok
    /\ is_auth_error(calls[p].log[1].did)

\* p's call is past line 117
PastReauthentication(p) == calls[p].pc \in {"retry", "returned", "raised"}

\* the logins performed by the calls in flight
Reauthentications ==
    { <<p, i>> \in Callers \X (1..3) :
         i <= Len(calls[p].log) /\ calls[p].log[i].ev = "authenticate" }

\* C36: when the calls of two callers are in flight together and both have
\* seen their first invocation fail with an authentication error, then once
\* both are past the reauthentication step the login has been performed
\* twice, once by each call
C36_ReauthenticationNotCoalesced ==
    \A p, q \in Callers :
        (/\ p # q
         /\ ObservedAuthFailure(p) /\ ObservedAuthFailure(q)
         /\ PastReauthentication(p) /\ PastReauthentication(q))
        => /\ Cardinality(Reauthentications) = 2
           /\ \E i \in 1..3 : <<p, i>> \in Reauthentications
           /\ \E i \in 1..3 : <<q, i>> \in Reauthentications

\* both calls saw the session expired, both logged in again, and neither
\* has finished: both are about to retry
C36_Witness ==
    /\ \A p \in Callers : ObservedAuthFailure(p) /\ calls[p].pc = "retry"
    /\ Cardinality(Reauthentications) = 2

----------------------------------------------------------------------------
(* Claims: the wrapper's combined error in call_tool                       *)

\* the get_teams tool has answered, its first invocation having failed with
\* a session error and the reauthentication or the retry after it having
\* failed too
RetryFailedInTool ==
    /\ ServerIdle /\ server.op = "call_tool" /\ server.name = "get_teams"
    /\ server.did.tool # None
    /\ batch.kind = "get_teams" /\ batch.pc = "raised"
    /\ has_password_auth(config)
    /\ ~batch.first.ok
    /\ batch.first.msg \in {"Session is invalid", "401 Unauthorized"}

CombinedPrefix ==
    "Authentication error (will retry on next request): "
    \o "Session expired and re-authentication failed. "

\* C39: with password authentication, when the reauthentication or the
\* retried invocation fails, call_tool answers "Authentication error ..."
\* with the combined error and leaves the global client None, whatever the
\* failure of the retry was
C39_FailedRetryResetsClient ==
    RetryFailedInTool =>
        /\ server.client = None
        /\ server.out.ok
        /\ StartsWith(server.out.value[1].text, CombinedPrefix)

\* the session had expired, the login succeeded, the retried invocation
\* failed with a network error: the client that was installed is dropped
C39_Witness ==
    /\ RetryFailedInTool
    /\ batch.invoked = 2
    /\ AtEntry.client # None
    /\ server.client = None
    /\ server.out = Returned(Text(CombinedPrefix
          \o "Original error: Session is invalid. "
          \o "Retry error: Network timeout"))

----------------------------------------------------------------------------
(* Claims: what a resolution by name leaves in the cache                   *)

\* get_team_by_name missed the name index, got a list from the remote and
\* has just returned or raised
ListFetched ==
    /\ batch.kind = "team_by_name"
    /\ batch.pc \in {"returned", "raised"}
    /\ now = trace.end
    /\ Len(trace.fetches) = 1
    /\ trace.fetches[1].ok

HasId(i) == "id" \in DOMAIN TheList[i]
HasName(i) == "name" \in DOMAIN TheList[i]
\* the entry the set_team of the team at i made
EntryOf(i) == [value |-> TheList[i], expires_at |-> trace.end + cache.ttl]
\* the last team of the list written under the id, or under the name, of
\* the team at i
LastWithId(i) ==
    CHOOSE j \in i..Len(TheList) :
        /\ HasId(j) /\ TheList[j].id = TheList[i].id
        /\ \A k \in (j + 1)..Len(TheList) :
               ~(HasId(k) /\ TheList[k].id = TheList[i].id)
LastWithName(i) ==
    CHOOSE j \in i..Len(TheList) :
        /\ HasId(j) /\ HasName(j) /\ TheList[j].name = TheList[i].name
        /\ \A k \in (j + 1)..Len(TheList) :
               ~(HasId(k) /\ HasName(k) /\ TheList[k].name = TheList[i].name)

\* C40: when get_team_by_name misses the name index and gets a list, every
\* team of the list that has an id has been written to the cache at the
\* instant of the fetch, under its id and, if it has a name, under its name,
\* whether the asked name was found or ValueError was raised; the entry
\* under a key is the one of the last team of the list written under it
C40_EveryListedTeamIsCached ==
    ListFetched =>
        \A i \in 1..Len(TheList) : HasId(i) =>
            /\ TheList[i].id \in DOMAIN cache.teams
            /\ cache.teams[TheList[i].id] = EntryOf(LastWithId(i))
            /\ HasName(i) =>
                  /\ TheList[i].name \in DOMAIN cache.team_names
                  /\ cache.team_names[TheList[i].name] = EntryOf(LastWithName(i))

\* "nonexistent" asked, ValueError raised, and the two teams of the list are
\* in the cache under their ids and their names
C40_Witness ==
    /\ ListFetched
    /\ batch.ids = << "nonexistent" >>
    /\ batch.pc = "raised"
    /\ TheList = << [id |-> "t1", name |-> "eng"], [id |-> "t2", name |-> "ops"] >>
    /\ CachedByIdAndName([id |-> "t1", name |-> "eng"])
    /\ CachedByIdAndName([id |-> "t2", name |-> "ops"])

====
